---------------------------- MODULE Spec2Model ----------------------------
(***************************************************************************)
(* A model of the gb-emulator core: the register file (registers.go), the  *)
(* addressable unit with its boot overlay (mmu.go), the fetch/decode/       *)
(* execute engine (cpu.go) and the instruction routines (registers.go,      *)
(* ins.go), together with the dispatch binding computed by the generator.   *)
(*                                                                         *)
(* Go's zero-initialised byte arrays (MMU.memory, MMU.boot) are kept as    *)
(* functions whose domain holds exactly the addresses with a non-zero      *)
(* byte; every other address reads 0.  Two arrays are equal iff their      *)
(* representations are equal.                                              *)
(***************************************************************************)
EXTENDS Integers, Sequences, FiniteSets, TLC

VARIABLES
    regs,    \* CPU.Registers: A F B C D E H L PC SP
    mmu,     \* CPU.Mmu: memory, boot, bootEnabled
    fault,   \* the panic that ended execution, if any
    last,    \* the last operation performed: its inputs, result and pre-state
    prev,    \* the operation performed before last
    n,       \* number of operations performed so far
    execute, \* opcodes[i].Execute of every slot i; "nil" until main binds it
    bindIdx, \* main's binding loop variable idx; 512 once the loop has ended
    peer,    \* a second engine instance with its own Registers and Mmu, if any
    trace    \* the stack and two-instance drivers' calls so far, oldest first

vars == <<regs, mmu, fault, last, prev, n, execute, bindIdx, peer, trace>>

----------------------------------------------------------------------------
(* Fixed-width arithmetic                                                  *)

Byte == 0..255
Word == 0..65535

U8(x)  == x % 256
U16(x) == x % 65536

RECURSIVE BitAnd(_, _, _)
BitAnd(a, b, w) ==
    IF w = 0 THEN 0
    ELSE (IF a % 2 = 1 /\ b % 2 = 1 THEN 1 ELSE 0) + 2 * BitAnd(a \div 2, b \div 2, w - 1)

RECURSIVE BitOr(_, _, _)
BitOr(a, b, w) ==
    IF w = 0 THEN 0
    ELSE (IF a % 2 = 1 \/ b % 2 = 1 THEN 1 ELSE 0) + 2 * BitOr(a \div 2, b \div 2, w - 1)

RECURSIVE BitXor(_, _, _)
BitXor(a, b, w) ==
    IF w = 0 THEN 0
    ELSE (IF a % 2 # b % 2 THEN 1 ELSE 0) + 2 * BitXor(a \div 2, b \div 2, w - 1)

And8(a, b)  == BitAnd(a, b, 8)
Or8(a, b)   == BitOr(a, b, 8)
Xor8(a, b)  == BitXor(a, b, 8)
Not8(a)     == 255 - a
And16(a, b) == BitAnd(a, b, 16)
Or16(a, b)  == BitOr(a, b, 16)

\* int8(b): the two's complement reading of a byte
Int8(b) == IF b >= 128 THEN b - 256 ELSE b

----------------------------------------------------------------------------
(* Zero-initialised byte arrays                                            *)

ZeroArray == [a \in {} |-> 0]

ArrAt(arr, a) == IF a \in DOMAIN arr THEN arr[a] ELSE 0

ArrPut(arr, a, v) ==
    IF v = 0
    THEN [x \in (DOMAIN arr) \ {a} |-> arr[x]]
    ELSE [x \in (DOMAIN arr) \cup {a} |-> IF x = a THEN v ELSE arr[x]]

----------------------------------------------------------------------------
(* mmu.go: the addressable unit                                            *)

bootDisableReg == 65360   \* 0xFF50

MemoryLen == 65536        \* len(mmu.memory)
BootLen   == 256          \* len(mmu.boot)

\* NewMMU: bootEnabled is set and copy() moves min(len(bootROM), 256) bytes
NewMMU(bootROM) ==
    [ memory      |-> ZeroArray,
      boot        |-> [i \in {j \in 0..(BootLen - 1) : j < Len(bootROM) /\ bootROM[j + 1] # 0}
                          |-> bootROM[i + 1]],
      bootEnabled |-> TRUE ]

\* variant: the overlay answers low reads whether or not it is still active
ReadByteAt_IgnoreLatch(m, addr) ==
    IF addr < 256
    THEN ArrAt(m.boot, addr)
    ELSE ArrAt(m.memory, addr)

ReadByteAt(m, addr) ==
    IF m.bootEnabled /\ addr < 256
    THEN ArrAt(m.boot, addr)
    ELSE IF addr >= MemoryLen
         THEN 255
         ELSE ArrAt(m.memory, addr)

\* variant: the byte at addr is taken as the high byte of the word
ReadWordAt_BigEndian(m, addr) ==
    LET lo == ReadByteAt(m, addr)
        hi == ReadByteAt(m, U16(addr + 1))
    IN  Or16(U16(lo * 256), hi)

ReadWordAt(m, addr) ==
    LET lo == ReadByteAt(m, addr)
        hi == ReadByteAt(m, U16(addr + 1))
    IN  Or16(U16(hi * 256), lo)

\* variant: the disable register follows bit 0 in both directions
WriteByteAt_Toggle(m, addr, value) ==
    IF addr = bootDisableReg
    THEN [m EXCEPT !.bootEnabled = And8(value, 1) = 0,
                   !.memory = ArrPut(@, addr, value)]
    ELSE [m EXCEPT !.memory = ArrPut(@, addr, value)]

\* variant: any non-zero value written to the disable register retracts the overlay
WriteByteAt_AnyValue(m, addr, value) ==
    IF addr = bootDisableReg
    THEN [m EXCEPT !.bootEnabled = IF value # 0 THEN FALSE ELSE @,
                   !.memory = ArrPut(@, addr, value)]
    ELSE [m EXCEPT !.memory = ArrPut(@, addr, value)]

\* variant: the write to the disable register only latches, the value is not stored
WriteByteAt_DropStore(m, addr, value) ==
    IF addr = bootDisableReg
    THEN [m EXCEPT !.bootEnabled = IF And8(value, 1) # 0 THEN FALSE ELSE @]
    ELSE [m EXCEPT !.memory = ArrPut(@, addr, value)]

\* variant: a write below 0x0100 lands in the overlay while it is active
WriteByteAt_IntoOverlay(m, addr, value) ==
    IF addr = bootDisableReg
    THEN [m EXCEPT !.bootEnabled = IF And8(value, 1) # 0 THEN FALSE ELSE @,
                   !.memory = ArrPut(@, addr, value)]
    ELSE IF m.bootEnabled /\ addr < BootLen
         THEN [m EXCEPT !.boot = ArrPut(@, addr, value)]
         ELSE [m EXCEPT !.memory = ArrPut(@, addr, value)]

WriteByteAt(m, addr, value) ==
    IF addr = bootDisableReg
    THEN [m EXCEPT !.bootEnabled = IF And8(value, 1) # 0 THEN FALSE ELSE @,
                   !.memory = ArrPut(@, addr, value)]
    ELSE IF addr >= MemoryLen
         THEN m
         ELSE [m EXCEPT !.memory = ArrPut(@, addr, value)]

----------------------------------------------------------------------------
(* registers.go: the register file                                         *)

ZeroFlag      == 128
SubtractFlag  == 64
HalfCarryFlag == 32
CarryFlag     == 16

getA(r) == r.A
setA(r, value) == [r EXCEPT !.A = value]
getB(r) == r.B
setB(r, value) == [r EXCEPT !.B = value]
getC(r) == r.C
setC(r, value) == [r EXCEPT !.C = value]
getH(r) == r.H

getAF(r) == Or16(U16(r.A * 256), r.F)
\* variant: the low byte is stored in F without the 0xF0 mask
setAF_NoMask(r, value) == [r EXCEPT !.A = U8(value \div 256), !.F = U8(value)]

setAF(r, value) == [r EXCEPT !.A = U8(value \div 256), !.F = U8(And16(value, 240))]
getBC(r) == Or16(U16(r.B * 256), r.C)
\* variant: the two halves are stored in the wrong registers
setBC_Swapped(r, value) == [r EXCEPT !.B = U8(value), !.C = U8(value \div 256)]

setBC(r, value) == [r EXCEPT !.B = U8(value \div 256), !.C = U8(value)]
getDE(r) == Or16(U16(r.D * 256), r.E)
setDE(r, value) == [r EXCEPT !.D = U8(value \div 256), !.E = U8(value)]
getHL(r) == Or16(U16(r.H * 256), r.L)
setHL(r, value) == [r EXCEPT !.H = U8(value \div 256), !.L = U8(value)]
decHL(r) == setHL(r, U16(getHL(r) + 65535))

getSP(r) == r.SP
setSP(r, value) == [r EXCEPT !.SP = value]
getPC(r) == r.PC
setPC(r, value) == [r EXCEPT !.PC = value]

\* variant: the displacement is added as an unsigned byte
addPC_Unsigned(r, value) == [r EXCEPT !.PC = (r.PC + (value % 256)) % 65536]

\* addPC(value int8): uint16(int32(PC) + int32(value))
addPC(r, value) == [r EXCEPT !.PC = (r.PC + value) % 65536]

getFlag(r, flag) == And8(r.F, flag) # 0
\* variant: clearing a flag assigns the complement of its mask to F
setFlag_AssignOnClear(r, flag, set) ==
    IF set THEN [r EXCEPT !.F = Or8(@, flag)] ELSE [r EXCEPT !.F = Not8(flag)]

setFlag(r, flag, set) ==
    IF set THEN [r EXCEPT !.F = Or8(@, flag)]
           ELSE [r EXCEPT !.F = And8(@, Not8(flag))]

inc8Flags(r, orig, res) ==
    LET r1 == setFlag(r, ZeroFlag, res = 0)
        r2 == setFlag(r1, SubtractFlag, FALSE)
    IN  setFlag(r2, HalfCarryFlag, And8(orig, 15) = 15)

\* uint8(1) << k: a shift count of 8 or more leaves 0
Shl8(x, k) == IF k >= 8 THEN 0 ELSE (x * (2 ^ k)) % 256

\* the exported accessors of the earlier Registers file
GetFlag(r, flag) == And8(r.F, flag) # 0

SetFlag(r, flag, set) ==
    IF set THEN [r EXCEPT !.F = Or8(@, Shl8(1, flag))]
           ELSE [r EXCEPT !.F = And8(@, Not8(Shl8(1, flag)))]

\* The names the 8-bit accessor lookup resolves; any other name yields nil.
Reg8Names == {"A", "B", "C", "D", "E", "H", "L"}
getRegisterGetter8(r, name) == r[name]
getRegisterSetter8(r, name, value) == [r EXCEPT ![name] = value]

boolToUint8(b) == IF b THEN 1 ELSE 0

----------------------------------------------------------------------------
(* The opcode dataset (data/opcodes.json): for every opcode value of the   *)
(* two collections, the mnemonic, byte length, cycle costs and operand     *)
(* descriptors of the LR35902 instruction set.                             *)

Operand(name, bytes, immediate, increment, decrement) ==
    [Name |-> name, Bytes |-> bytes, Immediate |-> immediate,
     Increment |-> increment, Decrement |-> decrement]

RegOp(name)        == Operand(name, 0, TRUE, FALSE, FALSE)
MemOp(name)        == Operand(name, 0, FALSE, FALSE, FALSE)
MemIncOp(name)     == Operand(name, 0, FALSE, TRUE, FALSE)
MemDecOp(name)     == Operand(name, 0, FALSE, FALSE, TRUE)
ImmOp(name, bytes) == Operand(name, bytes, TRUE, FALSE, FALSE)
AdrOp(name, bytes) == Operand(name, bytes, FALSE, FALSE, FALSE)

rawInstr(mnemonic, bytes, cycles, operands) ==
    [Mnemonic |-> mnemonic, Bytes |-> bytes, Cycles |-> cycles, Operands |-> operands]

R8Field   == <<"B", "C", "D", "E", "H", "L", "HL", "A">>
R16Field  == <<"BC", "DE", "HL", "SP">>
R16Stack  == <<"BC", "DE", "HL", "AF">>
CondField == <<"NZ", "Z", "NC", "C">>
AluField  == <<"ADD", "ADC", "SUB", "SBC", "AND", "XOR", "OR", "CP">>
AccField  == <<"RLCA", "RRCA", "RLA", "RRA", "DAA", "CPL", "SCF", "CCF">>
RotField  == <<"RLC", "RRC", "RL", "RR", "SLA", "SRA", "SWAP", "SRL">>
BitField  == <<"0", "1", "2", "3", "4", "5", "6", "7">>
RstField  == <<"$00", "$08", "$10", "$18", "$20", "$28", "$30", "$38">>
HexDigit  == <<"0", "1", "2", "3", "4", "5", "6", "7", "8", "9", "A", "B", "C", "D", "E", "F">>

Hex2(v) == HexDigit[(v \div 16) + 1] \o HexDigit[(v % 16) + 1]

\* the operand in 8-bit operand field z: a register, or memory at HL
R8Op(z) == IF z = 6 THEN MemOp("HL") ELSE RegOp(R8Field[z + 1])

Illegal(op) == rawInstr("ILLEGAL_" \o Hex2(op), 1, <<4>>, <<>>)

IllegalMnemonics ==
    {"ILLEGAL_" \o Hex2(op) : op \in {211, 219, 221, 227, 228, 235, 236, 237, 244, 252, 253}}

Unprefixed(op) ==
    LET x == op \div 64
        y == (op \div 8) % 8
        z == op % 8
        p == y \div 2
        q == y % 2
    IN
    IF x = 0 THEN
        CASE z = 0 ->
               ( CASE y = 0 -> rawInstr("NOP", 1, <<4>>, <<>>)
                   [] y = 1 -> rawInstr("LD", 3, <<20>>, <<AdrOp("a16", 2), RegOp("SP")>>)
                   [] y = 2 -> rawInstr("STOP", 2, <<4>>, <<ImmOp("n8", 1)>>)
                   [] y = 3 -> rawInstr("JR", 2, <<12>>, <<ImmOp("e8", 1)>>)
                   [] OTHER -> rawInstr("JR", 2, <<12, 8>>,
                                        <<RegOp(CondField[y - 3]), ImmOp("e8", 1)>>) )
          [] z = 1 ->
               IF q = 0
               THEN rawInstr("LD", 3, <<12>>, <<RegOp(R16Field[p + 1]), ImmOp("n16", 2)>>)
               ELSE rawInstr("ADD", 1, <<8>>, <<RegOp("HL"), RegOp(R16Field[p + 1])>>)
          [] z = 2 ->
               LET m == CASE p = 0 -> MemOp("BC")
                          [] p = 1 -> MemOp("DE")
                          [] p = 2 -> MemIncOp("HL")
                          [] OTHER -> MemDecOp("HL")
               IN  IF q = 0
                   THEN rawInstr("LD", 1, <<8>>, <<m, RegOp("A")>>)
                   ELSE rawInstr("LD", 1, <<8>>, <<RegOp("A"), m>>)
          [] z = 3 ->
               rawInstr(IF q = 0 THEN "INC" ELSE "DEC", 1, <<8>>, <<RegOp(R16Field[p + 1])>>)
          [] z = 4 -> rawInstr("INC", 1, IF y = 6 THEN <<12>> ELSE <<4>>, <<R8Op(y)>>)
          [] z = 5 -> rawInstr("DEC", 1, IF y = 6 THEN <<12>> ELSE <<4>>, <<R8Op(y)>>)
          [] z = 6 -> rawInstr("LD", 2, IF y = 6 THEN <<12>> ELSE <<8>>,
                               <<R8Op(y), ImmOp("n8", 1)>>)
          [] OTHER -> rawInstr(AccField[y + 1], 1, <<4>>, <<>>)
    ELSE IF x = 1 THEN
        IF op = 118
        THEN rawInstr("HALT", 1, <<4>>, <<>>)
        ELSE rawInstr("LD", 1, IF y = 6 \/ z = 6 THEN <<8>> ELSE <<4>>, <<R8Op(y), R8Op(z)>>)
    ELSE IF x = 2 THEN
        rawInstr(AluField[y + 1], 1, IF z = 6 THEN <<8>> ELSE <<4>>, <<RegOp("A"), R8Op(z)>>)
    ELSE
        CASE z = 0 ->
               ( CASE y < 4 -> rawInstr("RET", 1, <<20, 8>>, <<RegOp(CondField[y + 1])>>)
                   [] y = 4 -> rawInstr("LDH", 2, <<12>>, <<AdrOp("a8", 1), RegOp("A")>>)
                   [] y = 5 -> rawInstr("ADD", 2, <<16>>, <<RegOp("SP"), ImmOp("e8", 1)>>)
                   [] y = 6 -> rawInstr("LDH", 2, <<12>>, <<RegOp("A"), AdrOp("a8", 1)>>)
                   [] OTHER -> rawInstr("LD", 2, <<12>>,
                                        <<RegOp("HL"), Operand("SP", 0, TRUE, TRUE, FALSE),
                                          ImmOp("e8", 1)>>) )
          [] z = 1 ->
               IF q = 0
               THEN rawInstr("POP", 1, <<12>>, <<RegOp(R16Stack[p + 1])>>)
               ELSE ( CASE p = 0 -> rawInstr("RET", 1, <<16>>, <<>>)
                        [] p = 1 -> rawInstr("RETI", 1, <<16>>, <<>>)
                        [] p = 2 -> rawInstr("JP", 1, <<4>>, <<RegOp("HL")>>)
                        [] OTHER -> rawInstr("LD", 1, <<8>>, <<RegOp("SP"), RegOp("HL")>>) )
          [] z = 2 ->
               ( CASE y < 4 -> rawInstr("JP", 3, <<16, 12>>,
                                        <<RegOp(CondField[y + 1]), ImmOp("a16", 2)>>)
                   [] y = 4 -> rawInstr("LDH", 1, <<8>>, <<MemOp("C"), RegOp("A")>>)
                   [] y = 5 -> rawInstr("LD", 3, <<16>>, <<AdrOp("a16", 2), RegOp("A")>>)
                   [] y = 6 -> rawInstr("LDH", 1, <<8>>, <<RegOp("A"), MemOp("C")>>)
                   [] OTHER -> rawInstr("LD", 3, <<16>>, <<RegOp("A"), AdrOp("a16", 2)>>) )
          [] z = 3 ->
               ( CASE y = 0 -> rawInstr("JP", 3, <<16>>, <<ImmOp("a16", 2)>>)
                   [] y = 1 -> rawInstr("PREFIX", 1, <<4>>, <<>>)
                   [] y = 6 -> rawInstr("DI", 1, <<4>>, <<>>)
                   [] y = 7 -> rawInstr("EI", 1, <<4>>, <<>>)
                   [] OTHER -> Illegal(op) )
          [] z = 4 ->
               IF y < 4
               THEN rawInstr("CALL", 3, <<24, 12>>, <<RegOp(CondField[y + 1]), ImmOp("a16", 2)>>)
               ELSE Illegal(op)
          [] z = 5 ->
               IF q = 0
               THEN rawInstr("PUSH", 1, <<16>>, <<RegOp(R16Stack[p + 1])>>)
               ELSE IF p = 0
                    THEN rawInstr("CALL", 3, <<24>>, <<ImmOp("a16", 2)>>)
                    ELSE Illegal(op)
          [] z = 6 -> rawInstr(AluField[y + 1], 2, <<8>>, <<RegOp("A"), ImmOp("n8", 1)>>)
          [] OTHER -> rawInstr("RST", 1, <<16>>, <<RegOp(RstField[y + 1])>>)

Cbprefixed(op) ==
    LET x == op \div 64
        y == (op \div 8) % 8
        z == op % 8
    IN
    CASE x = 0 -> rawInstr(RotField[y + 1], 2, IF z = 6 THEN <<16>> ELSE <<8>>, <<R8Op(z)>>)
      [] x = 1 -> rawInstr("BIT", 2, IF z = 6 THEN <<12>> ELSE <<8>>,
                           <<RegOp(BitField[y + 1]), R8Op(z)>>)
      [] x = 2 -> rawInstr("RES", 2, IF z = 6 THEN <<16>> ELSE <<8>>,
                           <<RegOp(BitField[y + 1]), R8Op(z)>>)
      [] OTHER -> rawInstr("SET", 2, IF z = 6 THEN <<16>> ELSE <<8>>,
                           <<RegOp(BitField[y + 1]), R8Op(z)>>)

----------------------------------------------------------------------------
(* tools/gen_opcodes.go: the 512-slot table written from the dataset        *)

\* writeOpcodes: slot i < 256 holds the unprefixed entry keyed "0x%02X" of i,
\* slot i >= 256 the extended-prefixed entry keyed by i - 256.
opcodesEntry(i) ==
    IF i < 256
    THEN Unprefixed(i) @@ [Opcode |-> "0x" \o Hex2(i), CbPrefixed |-> FALSE]
    ELSE Cbprefixed(i - 256) @@ [Opcode |-> "0x" \o Hex2(i - 256), CbPrefixed |-> TRUE]

----------------------------------------------------------------------------
(* tools/gen_opcodes_dispatch.go: the routine name bound to each slot       *)

isR8(op)   == op.Name \in {"A", "B", "C", "D", "E", "H", "L"}
isR16(op)  == op.Name \in {"BC", "DE", "HL", "SP"}
isAF(op)   == op.Name = "AF"
isN8(op)   == op.Bytes = 1 /\ op.Name = "n8"
isN16(op)  == op.Bytes = 2 /\ op.Name = "n16"
isA8(op)   == op.Bytes = 1 /\ op.Name = "a8"
isA16(op)  == op.Bytes = 2 /\ op.Name = "a16"
isE8(op)   == op.Bytes = 1 /\ op.Name = "e8"
isMemBC(op) == op.Name = "BC" /\ ~op.Immediate
isMemDE(op) == op.Name = "DE" /\ ~op.Immediate
isMemHL(op) == op.Name = "HL" /\ ~op.Immediate
isMemC(op)  == op.Name = "C" /\ ~op.Immediate
isCond(op)  == op.Name \in {"Z", "NZ", "C", "NC"}
isBitIdx(op) == op.Name \in {"0", "1", "2", "3", "4", "5", "6", "7"}
isRstVec(op) == op.Name \in {"$00", "$08", "$10", "$18", "$20", "$28", "$30", "$38"}

\* goifyMnemonic: first letter upper case, the rest lower case
goifyMnemonic(mn) ==
    CASE mn = "LD" -> "Ld"     [] mn = "LDH" -> "Ldh"   [] mn = "ADD" -> "Add"
      [] mn = "ADC" -> "Adc"   [] mn = "SUB" -> "Sub"   [] mn = "SBC" -> "Sbc"
      [] mn = "AND" -> "And"   [] mn = "XOR" -> "Xor"   [] mn = "OR" -> "Or"
      [] mn = "CP" -> "Cp"     [] mn = "INC" -> "Inc"   [] mn = "DEC" -> "Dec"
      [] mn = "RLC" -> "Rlc"   [] mn = "RRC" -> "Rrc"   [] mn = "RL" -> "Rl"
      [] mn = "RR" -> "Rr"     [] mn = "SLA" -> "Sla"   [] mn = "SRA" -> "Sra"
      [] mn = "SWAP" -> "Swap" [] mn = "SRL" -> "Srl"   [] mn = "BIT" -> "Bit"
      [] mn = "RES" -> "Res"   [] mn = "SET" -> "Set"   [] mn = "JP" -> "Jp"
      [] mn = "JR" -> "Jr"     [] mn = "CALL" -> "Call" [] mn = "PUSH" -> "Push"
      [] mn = "POP" -> "Pop"   [] mn = "RST" -> "Rst"   [] mn = "RET" -> "Ret"
      [] OTHER -> mn

\* the first alternative of an if-chain whose condition holds, "" if none
FirstOf(alts) ==
    LET hit == {i \in 1..Len(alts) : alts[i][1]}
    IN  IF hit = {} THEN ""
        ELSE alts[CHOOSE i \in hit : \A j \in hit : i <= j][2]

determineGroupedFuncName(instr, prefix) ==
    LET m        == instr.Mnemonic
        ops      == instr.Operands
        opCount  == Len(instr.Operands)
        baseName == prefix \o goifyMnemonic(m)
        simple ==
            CASE m = "NOP" -> "Nop"   [] m = "HALT" -> "Halt" [] m = "STOP" -> "Stop"
              [] m = "DI" -> "Di"     [] m = "EI" -> "Ei"     [] m = "RLCA" -> "Rlca"
              [] m = "RRCA" -> "Rrca" [] m = "RLA" -> "Rla"   [] m = "RRA" -> "Rra"
              [] m = "DAA" -> "Daa"   [] m = "CPL" -> "Cpl"   [] m = "SCF" -> "Scf"
              [] m = "CCF" -> "Ccf"   [] m = "RETI" -> "Reti"
              [] m = "RET" /\ opCount = 0 -> "Ret"
              [] m = "RET" /\ opCount = 1 -> IF isCond(ops[1]) THEN "RetCond" ELSE ""
              [] OTHER -> ""
        grouped ==
            CASE m = "LD" /\ opCount = 2 ->
                   FirstOf(<< <<isR8(ops[1]) /\ isR8(ops[2]), "R8R8">>,
                              <<isR8(ops[1]) /\ isN8(ops[2]), "R8N8">>,
                              <<isR16(ops[1]) /\ isN16(ops[2]), "R16N16">>,
                              <<isMemBC(ops[1]) /\ ops[2].Name = "A", "MemBCA">>,
                              <<isMemDE(ops[1]) /\ ops[2].Name = "A", "MemDEA">>,
                              <<isMemHL(ops[1]) /\ isR8(ops[2]), "MemHLR8">>,
                              <<isMemHL(ops[1]) /\ isN8(ops[2]), "MemHLN8">>,
                              <<ops[1].Name = "A" /\ isMemBC(ops[2]), "AMemBC">>,
                              <<ops[1].Name = "A" /\ isMemDE(ops[2]), "AMemDE">>,
                              <<isR8(ops[1]) /\ isMemHL(ops[2]), "R8MemHL">>,
                              <<isA16(ops[1]) /\ ops[2].Name = "A", "MemImm16A">>,
                              <<isA16(ops[1]) /\ ops[2].Name = "SP", "MemImm16SP">>,
                              <<ops[1].Name = "A" /\ isA16(ops[2]), "AMemImm16">>,
                              <<ops[1].Name = "SP" /\ ops[2].Name = "HL", "SPHL">>,
                              <<isMemHL(ops[1]) /\ ops[1].Decrement /\ ops[2].Name = "A", "MemHLDA">>,
                              <<isMemHL(ops[1]) /\ ops[1].Increment /\ ops[2].Name = "A", "MemHLIA">>,
                              <<ops[1].Name = "A" /\ isMemHL(ops[2]) /\ ops[2].Decrement, "AMemHLD">>,
                              <<ops[1].Name = "A" /\ isMemHL(ops[2]) /\ ops[2].Increment, "AMemHLI">> >>)
              [] m = "LD" /\ opCount = 3 ->
                   FirstOf(<< <<ops[1].Name = "HL" /\ ops[2].Name = "SP" /\ isE8(ops[3]),
                                "HLSPImm8">> >>)
              [] m = "LDH" /\ opCount = 2 ->
                   FirstOf(<< <<isA8(ops[1]) /\ ops[2].Name = "A", "MemImm8A">>,
                              <<ops[1].Name = "A" /\ isA8(ops[2]), "AMemImm8">>,
                              <<isMemC(ops[1]) /\ ops[2].Name = "A", "MemCA">>,
                              <<ops[1].Name = "A" /\ isMemC(ops[2]), "AMemC">> >>)
              [] m \in {"ADD", "ADC", "SUB", "SBC", "AND", "XOR", "OR", "CP"} /\ opCount = 2 ->
                   FirstOf(<< <<ops[1].Name = "A" /\ isR8(ops[2]), "AR8">>,
                              <<ops[1].Name = "A" /\ isN8(ops[2]), "AN8">>,
                              <<ops[1].Name = "A" /\ isMemHL(ops[2]), "AMemHL">>,
                              <<m = "ADD" /\ ops[1].Name = "HL" /\ isR16(ops[2]), "HLR16">>,
                              <<m = "ADD" /\ ops[1].Name = "SP" /\ isE8(ops[2]), "SPE8">> >>)
              [] m \in {"INC", "DEC"} /\ opCount = 1 ->
                   FirstOf(<< <<isR8(ops[1]), "R8">>,
                              <<isR16(ops[1]), "R16">>,
                              <<isMemHL(ops[1]), "MemHL">> >>)
              [] m \in {"RLC", "RRC", "RL", "RR", "SLA", "SRA", "SWAP", "SRL"} /\ opCount = 1 ->
                   FirstOf(<< <<isR8(ops[1]), "R8">>,
                              <<isMemHL(ops[1]), "MemHL">> >>)
              [] m \in {"BIT", "RES", "SET"} /\ opCount = 2 ->
                   FirstOf(<< <<isBitIdx(ops[1]) /\ isR8(ops[2]), "BR8">>,
                              <<isBitIdx(ops[1]) /\ isMemHL(ops[2]), "BMemHL">> >>)
              [] m = "JP" /\ opCount = 1 ->
                   FirstOf(<< <<isA16(ops[1]), "Imm16">>,
                              <<ops[1].Name = "HL", "HL">> >>)
              [] m = "JP" /\ opCount = 2 ->
                   FirstOf(<< <<isCond(ops[1]) /\ isA16(ops[2]), "CondImm16">> >>)
              [] m = "JR" /\ opCount = 1 ->
                   FirstOf(<< <<isE8(ops[1]), "Imm8">> >>)
              [] m = "JR" /\ opCount = 2 ->
                   FirstOf(<< <<isCond(ops[1]) /\ isE8(ops[2]), "CondImm8">> >>)
              [] m = "CALL" /\ opCount = 1 ->
                   FirstOf(<< <<isA16(ops[1]), "Imm16">> >>)
              [] m = "CALL" /\ opCount = 2 ->
                   FirstOf(<< <<isCond(ops[1]) /\ isA16(ops[2]), "CondImm16">> >>)
              [] m \in {"PUSH", "POP"} /\ opCount = 1 ->
                   FirstOf(<< <<isR16(ops[1]) \/ isAF(ops[1]), "R16">> >>)
              [] m = "RST" /\ opCount = 1 ->
                   FirstOf(<< <<isRstVec(ops[1]), "Vec">> >>)
              [] OTHER -> ""
    IN  IF m = "PREFIX" THEN ""
        ELSE IF simple # "" THEN prefix \o simple
        ELSE IF grouped # "" THEN baseName \o grouped
        ELSE ""

\* processOpcodes: no entry for an empty or ILLEGAL mnemonic, nor for a
\* pattern without a grouped name
DispatchName(i) ==
    LET instr  == IF i < 256 THEN Unprefixed(i) ELSE Cbprefixed(i - 256)
        prefix == IF i < 256 THEN "Op" ELSE "OpCb"
    IN  IF instr.Mnemonic = "" \/ instr.Mnemonic \in IllegalMnemonics
        THEN ""
        ELSE determineGroupedFuncName(instr, prefix)

\* the routines registers.go defines
Routines ==
    {"OpNop", "OpLdR16N16", "OpLdMemBCA", "OpXorAR8", "OpLdMemHLR8", "OpCbBitBR8",
     "OpJrCondImm8", "OpLdR8N8", "OpLdhMemCA", "OpIncR8", "OpLdhMemImm8A", "OpLdAMemDE",
     "OpCallImm16", "OpLdR8R8", "OpPushR16", "OpCbRlR8", "OpRla", "OpPopR16"}

\* opcodesFunc: the generated map from slot index to routine
opcodesFunc == [i \in {j \in 0..511 : DispatchName(j) \in Routines} |-> DispatchName(i)]

\* main: every slot gets the routine opcodesFunc lists for it, or OpUnimplemented
opcodes ==
    [idx \in 0..511 |->
        opcodesEntry(idx) @@
        [Execute |-> IF idx \in DOMAIN opcodesFunc THEN opcodesFunc[idx] ELSE "OpUnimplemented"]]

----------------------------------------------------------------------------
(* cpu.go: fetch, decode and the stack primitives.  A cpu value c is the   *)
(* pair [Registers, Mmu] a *CPU points at.                                 *)

fetchByte(c) ==
    [ val |-> ReadByteAt(c.Mmu, c.Registers.PC),
      cpu |-> [c EXCEPT !.Registers.PC = U16(@ + 1)] ]

\* variant: the instruction pointer moves past one byte of the word only
fetchWord_AdvanceOne(c) ==
    [ val |-> ReadWordAt(c.Mmu, c.Registers.PC),
      cpu |-> [c EXCEPT !.Registers.PC = U16(@ + 1)] ]

fetchWord(c) ==
    [ val |-> ReadWordAt(c.Mmu, c.Registers.PC),
      cpu |-> [c EXCEPT !.Registers.PC = U16(@ + 2)] ]

opcodeAddr(c, instr) == U16(getPC(c.Registers) + 65536 - instr.Bytes)

\* variant: the extended-prefixed slot is looked up without the 256 offset
decode_NoOffset(c) ==
    LET f1 == fetchByte(c)
        f2 == fetchByte(f1.cpu)
    IN  IF f1.val = 203
        THEN [cpu |-> f2.cpu, idx |-> f2.val, instr |-> opcodes[f2.val]]
        ELSE [cpu |-> f1.cpu, idx |-> f1.val, instr |-> opcodes[f1.val]]

decode(c) ==
    LET f1 == fetchByte(c)
        f2 == fetchByte(f1.cpu)
    IN  IF f1.val = 203
        THEN [cpu |-> f2.cpu, idx |-> 256 + f2.val, instr |-> opcodes[256 + f2.val]]
        ELSE [cpu |-> f1.cpu, idx |-> f1.val, instr |-> opcodes[f1.val]]

\* variant: the low byte is stored first, at the higher address
pushWord_LowFirst(c, v) ==
    LET sp1 == U16(getSP(c.Registers) + 65535)
        m1  == WriteByteAt(c.Mmu, sp1, U8(v))
        sp2 == U16(sp1 + 65535)
        m2  == WriteByteAt(m1, sp2, U8(v \div 256))
    IN  [Registers |-> setSP(c.Registers, sp2), Mmu |-> m2]

pushWord(c, v) ==
    LET sp1 == U16(getSP(c.Registers) + 65535)
        m1  == WriteByteAt(c.Mmu, sp1, U8(v \div 256))
        sp2 == U16(sp1 + 65535)
        m2  == WriteByteAt(m1, sp2, U8(v))
    IN  [Registers |-> setSP(c.Registers, sp2), Mmu |-> m2]

\* variant: the two bytes are read in the order they were pushed
popWord_HighFirst(c) ==
    LET sp0 == getSP(c.Registers)
        hi  == ReadByteAt(c.Mmu, sp0)
        sp1 == U16(sp0 + 1)
        lo  == ReadByteAt(c.Mmu, sp1)
        sp2 == U16(sp1 + 1)
    IN  [ val |-> Or16(U16(hi * 256), lo),
          cpu |-> [c EXCEPT !.Registers = setSP(@, sp2)] ]

\* variant: the stack pointer is left where it was
popWord_KeepSP(c) ==
    LET sp0 == getSP(c.Registers)
        lo  == ReadByteAt(c.Mmu, sp0)
        hi  == ReadByteAt(c.Mmu, U16(sp0 + 1))
    IN  [ val |-> Or16(U16(hi * 256), lo), cpu |-> c ]

popWord(c) ==
    LET sp0 == getSP(c.Registers)
        lo  == ReadByteAt(c.Mmu, sp0)
        sp1 == U16(sp0 + 1)
        hi  == ReadByteAt(c.Mmu, sp1)
        sp2 == U16(sp1 + 1)
    IN  [ val |-> Or16(U16(hi * 256), lo),
          cpu |-> [c EXCEPT !.Registers = setSP(@, sp2)] ]

\* variant: the carry is read off bit 4 of the 8-bit sum
halfCarryAdd_SumBit(a, b) == And8(U8(a + b), 16) # 0

halfCarryAdd(a, b) == And8(a, 15) + And8(b, 15) > 15

----------------------------------------------------------------------------
(* registers.go: Instruction.String and the instruction routines.  A       *)
(* routine yields the cpu it leaves behind and either the cycle count it   *)
(* returns or the panic that ended it.                                     *)

NoPanic == [on |-> FALSE, who |-> "", str |-> "", pc |-> 0]

Done(c, cycles) == [cpu |-> c, cycles |-> cycles, panic |-> NoPanic]

Panic(c, who, str, pc) ==
    [cpu |-> c, cycles |-> 0, panic |-> [on |-> TRUE, who |-> who, str |-> str, pc |-> pc]]

OperandString(operand) ==
    LET s1 == IF operand.Increment THEN operand.Name \o "++" ELSE operand.Name
        s2 == IF operand.Decrement THEN s1 \o "--" ELSE s1
    IN  IF ~operand.Immediate THEN "(" \o s2 \o ")" ELSE s2

RECURSIVE JoinOperands(_, _)
JoinOperands(operands, k) ==
    IF k > Len(operands) THEN ""
    ELSE IF k = Len(operands) THEN OperandString(operands[k])
    ELSE OperandString(operands[k]) \o ", " \o JoinOperands(operands, k + 1)

String(i) ==
    IF i.Mnemonic = "" THEN "UNKNOWN"
    ELSE IF Len(i.Operands) = 0 THEN i.Mnemonic
    ELSE i.Mnemonic \o " " \o JoinOperands(i.Operands, 1)

\* return instr.Cycles[k]: an index past the list is a run-time panic
ReturnCycles(c, instr, k) ==
    IF k < Len(instr.Cycles)
    THEN Done(c, instr.Cycles[k + 1])
    ELSE Panic(c, "index out of range", String(instr), c.Registers.PC)

OpUnimplemented(c, instr) ==
    Panic(c, "OpUnimplemented", String(instr), U16(c.Registers.PC + 65535))

OpNop(c, instr) == ReturnCycles(c, instr, 0)

OpLdR16N16(c, instr) ==
    IF Len(instr.Operands) < 1 THEN Panic(c, "OpLdR16N16", String(instr), c.Registers.PC)
    ELSE
    LET targetReg == instr.Operands[1].Name
        f         == fetchWord(c)
        r         == f.cpu.Registers
    IN  CASE targetReg = "BC" -> ReturnCycles([f.cpu EXCEPT !.Registers = setBC(r, f.val)], instr, 0)
          [] targetReg = "DE" -> ReturnCycles([f.cpu EXCEPT !.Registers = setDE(r, f.val)], instr, 0)
          [] targetReg = "HL" -> ReturnCycles([f.cpu EXCEPT !.Registers = setHL(r, f.val)], instr, 0)
          [] targetReg = "SP" -> ReturnCycles([f.cpu EXCEPT !.Registers = setSP(r, f.val)], instr, 0)
          [] OTHER -> Panic(f.cpu, "OpLdR16N16", String(instr), f.cpu.Registers.PC)

OpLdMemBCA(c, instr) ==
    LET addr  == getBC(c.Registers)
        value == getA(c.Registers)
    IN  ReturnCycles([c EXCEPT !.Mmu = WriteByteAt(@, addr, value)], instr, 0)

\* variant: the carry flag is left as it was
OpXorAR8_KeepCarry(c, instr) ==
    LET orig   == getA(c.Registers)
        srcVal == getRegisterGetter8(c.Registers, instr.Operands[2].Name)
        result == Xor8(orig, srcVal)
        r1     == setA(c.Registers, result)
        r2     == setFlag(r1, ZeroFlag, result = 0)
        r3     == setFlag(r2, SubtractFlag, FALSE)
        r4     == setFlag(r3, HalfCarryFlag, FALSE)
    IN  ReturnCycles([c EXCEPT !.Registers = r4], instr, 0)

OpXorAR8(c, instr) ==
    IF Len(instr.Operands) < 2 THEN Panic(c, "OpXorAR8", String(instr), c.Registers.PC)
    ELSE
    LET sourceReg == instr.Operands[2].Name
    IN  IF sourceReg \notin Reg8Names THEN Panic(c, "OpXorAR8", String(instr), c.Registers.PC)
        ELSE
        LET orig   == getA(c.Registers)
            srcVal == getRegisterGetter8(c.Registers, sourceReg)
            result == Xor8(orig, srcVal)
            r1     == setA(c.Registers, result)
            r2     == setFlag(r1, ZeroFlag, result = 0)
            r3     == setFlag(r2, SubtractFlag, FALSE)
            r4     == setFlag(r3, HalfCarryFlag, FALSE)
            r5     == setFlag(r4, CarryFlag, FALSE)
        IN  ReturnCycles([c EXCEPT !.Registers = r5], instr, 0)

\* variant: HL is moved before the byte is stored
OpLdMemHLR8_UpdateFirst(c, instr) ==
    LET isIncrement == instr.Operands[1].Increment
        isDecrement == instr.Operands[1].Decrement
        addr  == getHL(c.Registers)
        value == getRegisterGetter8(c.Registers, instr.Operands[2].Name)
        moved == IF isIncrement THEN U16(addr + 1)
                 ELSE IF isDecrement THEN U16(addr + 65535) ELSE addr
        c1    == [c EXCEPT !.Registers = setHL(@, moved)]
    IN  ReturnCycles([c1 EXCEPT !.Mmu = WriteByteAt(@, moved, value)], instr, 0)

\* ins.go, the routine of the single slot LD (HL-),A before the families
OpLdMemHLDecA(c, instr) ==
    LET addr  == getHL(c.Registers)
        value == getA(c.Registers)
        c1    == [c EXCEPT !.Mmu = WriteByteAt(@, addr, value)]
    IN  ReturnCycles([c1 EXCEPT !.Registers = decHL(@)], instr, 0)

OpLdMemHLR8(c, instr) ==
    IF Len(instr.Operands) < 2 THEN Panic(c, "OpLdMemHLR8", String(instr), c.Registers.PC)
    ELSE
    LET isIncrement == instr.Operands[1].Increment
        isDecrement == instr.Operands[1].Decrement
        sourceReg   == instr.Operands[2].Name
    IN  IF sourceReg \notin Reg8Names THEN Panic(c, "OpLdMemHLR8", String(instr), c.Registers.PC)
        ELSE
        LET addr  == getHL(c.Registers)
            value == getRegisterGetter8(c.Registers, sourceReg)
            c1    == [c EXCEPT !.Mmu = WriteByteAt(@, addr, value)]
        IN  IF isIncrement
            THEN ReturnCycles([c1 EXCEPT !.Registers = setHL(@, U16(addr + 1))], instr, 0)
            ELSE IF isDecrement
            THEN ReturnCycles([c1 EXCEPT !.Registers = setHL(@, U16(addr + 65535))], instr, 0)
            ELSE ReturnCycles(c1, instr, 0)

\* fmt.Sscanf(bitStr, "%d", &bitNum) on a one-digit operand name; -1 for a parse error
ScanBit(bitStr) ==
    IF \E k \in 1..Len(HexDigit) : HexDigit[k] = bitStr /\ k <= 10
    THEN (CHOOSE k \in 1..10 : HexDigit[k] = bitStr) - 1
    ELSE -1

\* variant: the zero flag follows the tested bit instead of its complement
OpCbBitBR8_ZeroIsBit(c, instr) ==
    LET bitNum == ScanBit(instr.Operands[1].Name)
        value  == getRegisterGetter8(c.Registers, instr.Operands[2].Name)
        bitVal == (value \div (2 ^ bitNum)) % 2
        r1     == setFlag(c.Registers, ZeroFlag, bitVal = 1)
        r2     == setFlag(r1, SubtractFlag, FALSE)
        r3     == setFlag(r2, HalfCarryFlag, TRUE)
    IN  ReturnCycles([c EXCEPT !.Registers = r3], instr, 0)

OpCbBitBR8(c, instr) ==
    IF Len(instr.Operands) < 2 THEN Panic(c, "OpCbBitBR8", String(instr), c.Registers.PC)
    ELSE
    LET bitStr  == instr.Operands[1].Name
        bitNum  == ScanBit(bitStr)
        regName == instr.Operands[2].Name
    IN  IF bitNum < 0 \/ bitNum > 7 THEN Panic(c, "OpCbBitBR8", String(instr), c.Registers.PC)
        ELSE IF regName \notin Reg8Names THEN Panic(c, "OpCbBitBR8", String(instr), c.Registers.PC)
        ELSE
        LET value  == getRegisterGetter8(c.Registers, regName)
            bitVal == (value \div (2 ^ bitNum)) % 2
            zero   == bitVal = 0
            r1     == setFlag(c.Registers, ZeroFlag, zero)
            r2     == setFlag(r1, SubtractFlag, FALSE)
            r3     == setFlag(r2, HalfCarryFlag, TRUE)
        IN  ReturnCycles([c EXCEPT !.Registers = r3], instr, 0)

\* variant: the first cycle cost is returned whether or not the jump is taken
OpJrCondImm8_SameCost(c, instr) ==
    LET f == fetchByte(c)
    IN  IF ~getFlag(f.cpu.Registers, ZeroFlag)
        THEN ReturnCycles([f.cpu EXCEPT !.Registers = addPC(@, Int8(f.val))], instr, 0)
        ELSE ReturnCycles(f.cpu, instr, 0)

\* variant: the offset byte is added without the int8 conversion
OpJrCondImm8_Unsigned(c, instr) ==
    LET f == fetchByte(c)
    IN  IF ~getFlag(f.cpu.Registers, ZeroFlag)
        THEN ReturnCycles([f.cpu EXCEPT !.Registers = addPC(@, f.val)], instr, 0)
        ELSE ReturnCycles(f.cpu, instr, 1)

OpJrCondImm8(c, instr) ==
    LET f == fetchByte(c)
    IN  IF ~getFlag(f.cpu.Registers, ZeroFlag)
        THEN ReturnCycles([f.cpu EXCEPT !.Registers = addPC(@, Int8(f.val))], instr, 0)
        ELSE ReturnCycles(f.cpu, instr, 1)

OpLdR8N8(c, instr) ==
    IF Len(instr.Operands) < 1 THEN Panic(c, "OpLdR8N8", String(instr), c.Registers.PC)
    ELSE
    LET targetReg == instr.Operands[1].Name
        f         == fetchByte(c)
    IN  IF targetReg \notin Reg8Names
        THEN Panic(f.cpu, "OpLdR8N8", String(instr), f.cpu.Registers.PC)
        ELSE ReturnCycles([f.cpu EXCEPT !.Registers = getRegisterSetter8(@, targetReg, f.val)],
                          instr, 0)

\* variant: the byte is stored in main memory without going through WriteByteAt
OpLdhMemCA_DirectStore(c, instr) ==
    LET addr  == Or16(65280, getC(c.Registers))
        value == getA(c.Registers)
    IN  ReturnCycles([c EXCEPT !.Mmu.memory = ArrPut(@, addr, value)], instr, 0)

OpLdhMemCA(c, instr) ==
    LET addr  == Or16(65280, getC(c.Registers))
        value == getA(c.Registers)
    IN  ReturnCycles([c EXCEPT !.Mmu = WriteByteAt(@, addr, value)], instr, 0)

\* variant: the half-carry is taken from the result's low nibble being 0xF
OpIncR8_HalfFromResult(c, instr) ==
    LET regName == instr.Operands[1].Name
        orig    == getRegisterGetter8(c.Registers, regName)
        res     == U8(orig + 1)
        r1      == getRegisterSetter8(c.Registers, regName, res)
        r2      == setFlag(r1, ZeroFlag, res = 0)
        r3      == setFlag(r2, SubtractFlag, FALSE)
        r4      == setFlag(r3, HalfCarryFlag, And8(res, 15) = 15)
    IN  ReturnCycles([c EXCEPT !.Registers = r4], instr, 0)

OpIncR8(c, instr) ==
    IF Len(instr.Operands) < 1 THEN Panic(c, "OpIncR8", String(instr), c.Registers.PC)
    ELSE
    LET regName == instr.Operands[1].Name
    IN  IF regName \notin Reg8Names THEN Panic(c, "OpIncR8", String(instr), c.Registers.PC)
        ELSE
        LET orig == getRegisterGetter8(c.Registers, regName)
            res  == U8(orig + 1)
            r1   == getRegisterSetter8(c.Registers, regName, res)
            r2   == setFlag(r1, ZeroFlag, res = 0)
            r3   == setFlag(r2, SubtractFlag, FALSE)
            r4   == setFlag(r3, HalfCarryFlag, And8(orig, 15) + 1 > 15)
        IN  ReturnCycles([c EXCEPT !.Registers = r4], instr, 0)

OpLdhMemImm8A(c, instr) ==
    LET f     == fetchByte(c)
        addr  == Or16(65280, f.val)
        value == getA(f.cpu.Registers)
    IN  ReturnCycles([f.cpu EXCEPT !.Mmu = WriteByteAt(@, addr, value)], instr, 0)

OpLdAMemDE(c, instr) ==
    LET addr  == getDE(c.Registers)
        value == ReadByteAt(c.Mmu, addr)
    IN  ReturnCycles([c EXCEPT !.Registers = setA(@, value)], instr, 0)

\* variant: the pushed address is taken before the target is fetched
OpCallImm16_EarlyReturnAddr(c, instr) ==
    LET f       == fetchWord(c)
        retAddr == getPC(c.Registers)
        c1      == pushWord(f.cpu, retAddr)
    IN  ReturnCycles([c1 EXCEPT !.Registers = setPC(@, f.val)], instr, 0)

OpCallImm16(c, instr) ==
    LET f       == fetchWord(c)
        retAddr == getPC(f.cpu.Registers)
        c1      == pushWord(f.cpu, retAddr)
    IN  ReturnCycles([c1 EXCEPT !.Registers = setPC(@, f.val)], instr, 0)

OpLdR8R8(c, instr) ==
    IF Len(instr.Operands) < 2 THEN Panic(c, "OpLdR8R8", String(instr), c.Registers.PC)
    ELSE
    LET targetReg == instr.Operands[1].Name
        sourceReg == instr.Operands[2].Name
    IN  IF sourceReg \notin Reg8Names \/ targetReg \notin Reg8Names
        THEN Panic(c, "OpLdR8R8", String(instr), c.Registers.PC)
        ELSE ReturnCycles(
                 [c EXCEPT !.Registers =
                     getRegisterSetter8(@, targetReg, getRegisterGetter8(c.Registers, sourceReg))],
                 instr, 0)

\* variant: the push moves the pair out of the register file, leaving BC,
\* DE or HL zero
OpPushR16_ClearSource(c, instr) ==
    IF Len(instr.Operands) < 1 THEN Panic(c, "OpPushR16", String(instr), c.Registers.PC)
    ELSE
    LET sourceReg == instr.Operands[1].Name
        r         == c.Registers
    IN  CASE sourceReg = "BC" -> ReturnCycles(pushWord([c EXCEPT !.Registers = setBC(r, 0)], getBC(r)), instr, 0)
          [] sourceReg = "DE" -> ReturnCycles(pushWord([c EXCEPT !.Registers = setDE(r, 0)], getDE(r)), instr, 0)
          [] sourceReg = "HL" -> ReturnCycles(pushWord([c EXCEPT !.Registers = setHL(r, 0)], getHL(r)), instr, 0)
          [] sourceReg = "AF" -> ReturnCycles(pushWord(c, getAF(r)), instr, 0)
          [] OTHER -> Panic(c, "OpPushR16", String(instr), c.Registers.PC)

OpPushR16(c, instr) ==
    IF Len(instr.Operands) < 1 THEN Panic(c, "OpPushR16", String(instr), c.Registers.PC)
    ELSE
    LET sourceReg == instr.Operands[1].Name
    IN  CASE sourceReg = "BC" -> ReturnCycles(pushWord(c, getBC(c.Registers)), instr, 0)
          [] sourceReg = "DE" -> ReturnCycles(pushWord(c, getDE(c.Registers)), instr, 0)
          [] sourceReg = "HL" -> ReturnCycles(pushWord(c, getHL(c.Registers)), instr, 0)
          [] sourceReg = "AF" -> ReturnCycles(pushWord(c, getAF(c.Registers)), instr, 0)
          [] OTHER -> Panic(c, "OpPushR16", String(instr), c.Registers.PC)

\* variant: bit 0 of the result is bit 7 of the operand, not the carry flag
OpCbRlR8_CircularBit(c, instr) ==
    IF Len(instr.Operands) < 1 THEN Panic(c, "OpCbRlR8", String(instr), c.Registers.PC)
    ELSE
    LET targetReg == instr.Operands[1].Name
    IN  IF targetReg \notin Reg8Names THEN Panic(c, "OpCbRlR8", String(instr), c.Registers.PC)
        ELSE
        LET old      == getRegisterGetter8(c.Registers, targetReg)
            newCarry == (old \div 128) % 2 = 1
            result   == Or8(And8(U8(old * 2), 254), (old \div 128) % 2)
            r1       == getRegisterSetter8(c.Registers, targetReg, result)
            r2       == setFlag(r1, ZeroFlag, result = 0)
            r3       == setFlag(r2, SubtractFlag, FALSE)
            r4       == setFlag(r3, HalfCarryFlag, FALSE)
            r5       == setFlag(r4, CarryFlag, newCarry)
        IN  ReturnCycles([c EXCEPT !.Registers = r5], instr, 0)

OpCbRlR8(c, instr) ==
    IF Len(instr.Operands) < 1 THEN Panic(c, "OpCbRlR8", String(instr), c.Registers.PC)
    ELSE
    LET targetReg == instr.Operands[1].Name
    IN  IF targetReg \notin Reg8Names THEN Panic(c, "OpCbRlR8", String(instr), c.Registers.PC)
        ELSE
        LET old      == getRegisterGetter8(c.Registers, targetReg)
            carryIn  == IF getFlag(c.Registers, CarryFlag) THEN 1 ELSE 0
            newCarry == (old \div 128) % 2 = 1
            result   == Or8(And8(U8(old * 2), 254), carryIn)
            r1       == getRegisterSetter8(c.Registers, targetReg, result)
            r2       == setFlag(r1, ZeroFlag, result = 0)
            r3       == setFlag(r2, SubtractFlag, FALSE)
            r4       == setFlag(r3, HalfCarryFlag, FALSE)
            r5       == setFlag(r4, CarryFlag, newCarry)
        IN  ReturnCycles([c EXCEPT !.Registers = r5], instr, 0)

\* variant: the zero flag follows the result, as for the extended-prefixed RL
OpRla_ZeroFromResult(c, instr) ==
    LET a        == getA(c.Registers)
        carryIn  == getFlag(c.Registers, CarryFlag)
        newCarry == And8(a, 128) # 0
        res      == Or8(U8(a * 2), boolToUint8(carryIn))
        r1       == setA(c.Registers, res)
        r2       == setFlag(r1, ZeroFlag, res = 0)
        r3       == setFlag(r2, SubtractFlag, FALSE)
        r4       == setFlag(r3, HalfCarryFlag, FALSE)
        r5       == setFlag(r4, CarryFlag, newCarry)
    IN  ReturnCycles([c EXCEPT !.Registers = r5], instr, 0)

OpRla(c, instr) ==
    LET a        == getA(c.Registers)
        carryIn  == getFlag(c.Registers, CarryFlag)
        newCarry == And8(a, 128) # 0
        res      == Or8(U8(a * 2), boolToUint8(carryIn))
        r1       == setA(c.Registers, res)
        r2       == setFlag(r1, ZeroFlag, FALSE)
        r3       == setFlag(r2, SubtractFlag, FALSE)
        r4       == setFlag(r3, HalfCarryFlag, FALSE)
        r5       == setFlag(r4, CarryFlag, newCarry)
    IN  ReturnCycles([c EXCEPT !.Registers = r5], instr, 0)

OpPopR16(c, instr) ==
    IF Len(instr.Operands) < 1 THEN Panic(c, "OpPopR16", String(instr), c.Registers.PC)
    ELSE
    LET targetReg == instr.Operands[1].Name
        p         == popWord(c)
        r         == p.cpu.Registers
    IN  CASE targetReg = "BC" -> ReturnCycles([p.cpu EXCEPT !.Registers = setBC(r, p.val)], instr, 0)
          [] targetReg = "DE" -> ReturnCycles([p.cpu EXCEPT !.Registers = setDE(r, p.val)], instr, 0)
          [] targetReg = "HL" -> ReturnCycles([p.cpu EXCEPT !.Registers = setHL(r, p.val)], instr, 0)
          [] targetReg = "AF" -> ReturnCycles([p.cpu EXCEPT !.Registers = setAF(r, p.val)], instr, 0)
          [] OTHER -> Panic(p.cpu, "OpPopR16", String(instr), p.cpu.Registers.PC)

\* instr.Execute(cpu, &instr); a nil Execute cannot be called
Execute(c, instr) ==
    CASE instr.Execute = "OpNop"         -> OpNop(c, instr)
      [] instr.Execute = "OpLdR16N16"    -> OpLdR16N16(c, instr)
      [] instr.Execute = "OpLdMemBCA"    -> OpLdMemBCA(c, instr)
      [] instr.Execute = "OpXorAR8"      -> OpXorAR8(c, instr)
      [] instr.Execute = "OpLdMemHLR8"   -> OpLdMemHLR8(c, instr)
      [] instr.Execute = "OpCbBitBR8"    -> OpCbBitBR8(c, instr)
      [] instr.Execute = "OpJrCondImm8"  -> OpJrCondImm8(c, instr)
      [] instr.Execute = "OpLdR8N8"      -> OpLdR8N8(c, instr)
      [] instr.Execute = "OpLdhMemCA"    -> OpLdhMemCA(c, instr)
      [] instr.Execute = "OpIncR8"       -> OpIncR8(c, instr)
      [] instr.Execute = "OpLdhMemImm8A" -> OpLdhMemImm8A(c, instr)
      [] instr.Execute = "OpLdAMemDE"    -> OpLdAMemDE(c, instr)
      [] instr.Execute = "OpCallImm16"   -> OpCallImm16(c, instr)
      [] instr.Execute = "OpLdR8R8"      -> OpLdR8R8(c, instr)
      [] instr.Execute = "OpPushR16"     -> OpPushR16(c, instr)
      [] instr.Execute = "OpCbRlR8"      -> OpCbRlR8(c, instr)
      [] instr.Execute = "OpRla"         -> OpRla(c, instr)
      [] instr.Execute = "OpPopR16"      -> OpPopR16(c, instr)
      [] instr.Execute = "nil"           ->
             Panic(c, "nil pointer dereference", instr.Mnemonic, c.Registers.PC)
      [] OTHER                           -> OpUnimplemented(c, instr)

\* CPU.Step: decode, then run the routine main bound to the slot
Step(c) ==
    LET d == decode(c)
    IN  Execute(d.cpu, [d.instr EXCEPT !.Execute = execute[d.idx]])

----------------------------------------------------------------------------
(* The state machine: the engine and the addressable unit as a driver or   *)
(* a test uses them.  Every action is one call; last and prev record the   *)
(* two most recent calls with the state each started from.                 *)

MaxSteps == 2     \* CPU steps explored from each initial state
MaxCalls == 3     \* calls explored on the addressable unit

cpu == [Registers |-> regs, Mmu |-> mmu]

\* a driver with one engine instance has no second one
NoPeer == [Registers |-> <<>>, Mmu |-> <<>>]

NoOp ==
    [op |-> "init", addr |-> 0, value |-> 0, ret |-> 0, idx |-> 0,
     regs0 |-> <<>>, mmu0 |-> <<>>]

\* the record of m := NewMMU() on the boot image img
Built(img) ==
    [op |-> "NewMMU", addr |-> 0, value |-> img, ret |-> NewMMU(img), idx |-> 0,
     regs0 |-> <<>>, mmu0 |-> <<>>]

Record(op, addr, value, ret, idx) ==
    [op |-> op, addr |-> addr, value |-> value, ret |-> ret, idx |-> idx,
     regs0 |-> regs, mmu0 |-> mmu]

\* cycles := cpu.Step(); a panic ends the process where the routine stood
DoStep ==
    /\ ~fault.on
    /\ LET d   == decode(cpu)
           res == Step(cpu)
       IN  /\ regs'  = res.cpu.Registers
           /\ mmu'   = res.cpu.Mmu
           /\ fault' = res.panic
           /\ last'  = Record("Step", regs.PC, 0, res.cycles, d.idx)
    /\ prev' = last
    /\ n' = n + 1
    /\ UNCHANGED <<execute, bindIdx, peer, trace>>

\* mmu.WriteByteAt(addr, value)
DoWriteByteAt(addr, value) ==
    /\ ~fault.on
    /\ mmu'  = WriteByteAt(mmu, addr, value)
    /\ last' = Record("WriteByteAt", addr, value, 0, 0)
    /\ prev' = last
    /\ n' = n + 1
    /\ UNCHANGED <<execute, bindIdx, peer, trace>>
    /\ UNCHANGED <<regs, fault>>

\* mmu.ReadByteAt(addr)
DoReadByteAt(addr) ==
    /\ ~fault.on
    /\ last' = Record("ReadByteAt", addr, 0, ReadByteAt(mmu, addr), 0)
    /\ prev' = last
    /\ n' = n + 1
    /\ UNCHANGED <<execute, bindIdx, peer, trace>>
    /\ UNCHANGED <<regs, mmu, fault>>

\* mmu.ReadWordAt(addr)
DoReadWordAt(addr) ==
    /\ ~fault.on
    /\ last' = Record("ReadWordAt", addr, 0, ReadWordAt(mmu, addr), 0)
    /\ prev' = last
    /\ n' = n + 1
    /\ UNCHANGED <<execute, bindIdx, peer, trace>>
    /\ UNCHANGED <<regs, mmu, fault>>

----------------------------------------------------------------------------
(* Initial states of the engine: NewMMU on a boot image, the overlay       *)
(* optionally switched off through the disable register, a program stored *)
(* at the instruction pointer and a register file as a test would set it.  *)

Samples8 == <<0, 1, 15, 127, 128, 255, 80>>

\* register file number k: every register takes every sample as k varies
RotatedRegs(k, f, pc, sp) ==
    LET S(i) == Samples8[((k + i) % Len(Samples8)) + 1]
    IN  [A |-> S(0), F |-> f, B |-> S(1), C |-> S(2), D |-> S(3), E |-> S(4),
         H |-> S(5), L |-> S(6), PC |-> pc, SP |-> sp]

UniformRegs(v, f, pc, sp) ==
    [A |-> v, F |-> f, B |-> v, C |-> v, D |-> v, E |-> v, H |-> v, L |-> v,
     PC |-> pc, SP |-> sp]

RegFiles(f, pc, sp) ==
    {RotatedRegs(k, f, pc, sp) : k \in 0..(Len(Samples8) - 1)}
        \cup {UniformRegs(0, f, pc, sp), UniformRegs(255, f, pc, sp)}

FlagSamples == {0, 128, 16, 240, 165}

\* the image whose bytes from address at on are prog, all others zero
ImageWith(at, prog) ==
    [i \in 1..(at + Len(prog)) |-> IF i > at THEN prog[i - at] ELSE 0]

RECURSIVE Load(_, _, _)
Load(m, at, prog) ==
    IF prog = <<>> THEN m
    ELSE Load(WriteByteAt(m, at, Head(prog)), U16(at + 1), Tail(prog))

\* where the engine starts: <<PC, overlay still active>>
Starts == {<<0, TRUE>>, <<256, TRUE>>, <<65535, TRUE>>, <<65534, FALSE>>}

StackImage == <<161, 178, 195>>

Construct(img, active, pc, prog) ==
    LET m0 == NewMMU(img)
        m1 == IF active THEN m0 ELSE WriteByteAt(m0, bootDisableReg, 1)
    IN  Load(m1, pc, prog)

RegisterPrograms ==
    {<<0>>, <<2>>, <<18>>, <<226>>, <<26>>, <<23>>}
      \cup {<<op, 52, 18>> : op \in {1, 17, 33, 49, 205}}
      \cup {<<op>> : op \in 168..175 \ {174}}
      \cup {<<op>> : op \in (112..119 \ {118}) \cup {34, 50}}
      \cup {<<203, op>> : op \in 64..127}
      \cup {<<op, e>> : op \in {32, 40, 48, 56}, e \in {0, 5, 127, 128, 251, 255}}
      \cup {<<op, 170>> : op \in {6, 14, 22, 30, 38, 46, 62}}
      \cup {<<op>> : op \in {4, 12, 20, 28, 36, 44, 60}}
      \cup {<<224, a>> : a \in {80, 128}}
      \cup {<<op>> : op \in {65, 79, 120, 103, 127, 92}}
      \cup {<<203, op>> : op \in (16..23 \ {22})}

UnimplementedPrograms ==
    {<<211>>, <<118>>, <<201>>, <<24, 5>>, <<203, 0>>, <<203, 203>>, <<203, 255>>, <<52>>}

StackPrograms ==
    {<<push, push - 4>> : push \in {197, 213, 229, 245}}
      \cup {<<193>>, <<241>>, <<205, 52, 18>>, <<197, 209>>}

StackPointers == {65534, 65535, 0, 1, 2, 256, 257, 258, 65361, 65362}

\* the Execute fields as main's binding loop leaves them
BoundTable == [i \in 0..511 |-> opcodes[i].Execute]

\* programs that store to memory or the stack.  Run from the overlay at
\* 0x0000, the overlay byte after each is an instruction (0x3C INC A, 0x1A
\* LD A,(DE)) where main memory holds 0x00; run from main memory at 0x0100,
\* LD A,(DE) reads address 0x0000, where the overlay and main memory differ
LatchPrograms ==
    {<<224, 80, 60>>, <<224, 80, 26>>, <<226, 60>>, <<2, 60>>, <<112, 60>>, <<119, 60>>,
     <<34, 60>>, <<197, 60>>, <<205, 4, 0, 0, 60>>}

\* a register file with BC = HL = 0xFF50, the disable register's address
LatchRegs(a, pc, sp) ==
    [A |-> a, F |-> 0, B |-> 255, C |-> 80, D |-> 0, E |-> 0, H |-> 255, L |-> 80,
     PC |-> pc, SP |-> sp]

InitEngine(img, start, prog, r) ==
    /\ regs = r
    /\ mmu = Construct(img, start[2], start[1], prog)
    /\ fault = NoPanic
    /\ last = Built(img)
    /\ prev = NoOp
    /\ n = 0
    /\ execute = BoundTable
    /\ bindIdx = 512
    /\ peer = NoPeer
    /\ trace = <<>>

Init ==
    \/ \E prog \in RegisterPrograms \cup UnimplementedPrograms, start \in Starts,
          f \in FlagSamples :
          \E r \in RegFiles(f, start[1], 65534) :
             IF start[2] /\ start[1] < 256
             THEN InitEngine(ImageWith(start[1], prog), start, <<>>, r)
             ELSE InitEngine(StackImage, start, prog, r)
    \/ \E prog \in StackPrograms, start \in {<<512, TRUE>>, <<512, FALSE>>},
          f \in {0, 240, 165}, sp \in StackPointers :
          \E r \in {RotatedRegs(k, f, start[1], sp) : k \in {0, 2, 5}} :
             InitEngine(StackImage, start, prog, r)
    \/ \E prog \in LatchPrograms, start \in {<<0, TRUE>>, <<256, TRUE>>},
          a \in {1, 254}, sp \in {65362, 65361, 65534} :
          IF start[1] < 256
          THEN InitEngine(prog, start, <<>>, LatchRegs(a, start[1], sp))
          ELSE InitEngine(StackImage, start, prog, LatchRegs(a, start[1], sp))

Next == n < MaxSteps /\ DoStep

Spec == Init /\ [][Next]_vars

----------------------------------------------------------------------------
(* The addressable unit driven directly, as main() builds it: NewMMU on a  *)
(* boot image, registers at their reset values, then any mix of            *)
(* WriteByteAt, ReadByteAt, ReadWordAt calls and CPU steps.                *)

\* the image that loads A and stores it to the disable register: LD A,v; LDH (0x50),A
DisableImage(v) == <<62, v, 224, 80>>

\* an image one byte longer than the overlay: 0x3C at 0x0000, 0x07 at 0x0100
LongImage == [ImageWith(256, <<7>>) EXCEPT ![1] = 60]

\* the image that stores below 0x0100 under the overlay: INC A; LD (BC),A
\* with BC = 0x0000
StoreImage == <<60, 2>>

BootImages ==
    {<<>>, DisableImage(1), DisableImage(254), ImageWith(255, <<153>>), LongImage,
     StoreImage}

BusAddrs  == {0, 255, 256, 65360}
BusValues == {0, 1, 254}
WordAddrs == {255, 65535}

ResetRegs == [A |-> 0, F |-> 0, B |-> 0, C |-> 0, D |-> 0, E |-> 0, H |-> 0, L |-> 0,
              PC |-> 0, SP |-> 65534]

InitBus ==
    \E img \in BootImages : InitEngine(img, <<0, TRUE>>, <<>>, ResetRegs)

BusWrite    == n < MaxCalls /\ \E a \in BusAddrs, v \in BusValues : DoWriteByteAt(a, v)
BusRead     == n < MaxCalls /\ \E a \in BusAddrs : DoReadByteAt(a)
BusReadWord == n < MaxCalls /\ \E a \in WordAddrs : DoReadWordAt(a)
BusStep     == n < MaxCalls /\ DoStep

NextBus == BusWrite \/ BusRead \/ BusReadWord \/ BusStep

SpecBus == InitBus /\ [][NextBus]_vars

----------------------------------------------------------------------------
(* main(): the binding loop over the 512 slots, then the engine built on   *)
(* the embedded boot image and stepped forever.  The boot image is fixed   *)
(* before main starts and construction does not depend on the table, so    *)
(* regs and mmu hold from the start the values the construction gives.     *)

\* variant: a slot without an entry in opcodesFunc keeps its nil Execute
BindSlot_SkipUnlisted(t, i) ==
    IF i \in DOMAIN opcodesFunc THEN [t EXCEPT ![i] = opcodesFunc[i]] ELSE t

\* one pass of the loop body: opcodes[idx].Execute = opFunc or OpUnimplemented
BindSlot(t, i) ==
    [t EXCEPT ![i] = IF i \in DOMAIN opcodesFunc THEN opcodesFunc[i] ELSE "OpUnimplemented"]

DoBind ==
    /\ bindIdx < 512
    /\ execute' = BindSlot(execute, bindIdx)
    /\ bindIdx' = bindIdx + 1
    /\ UNCHANGED <<regs, mmu, fault, last, prev, n, peer, trace>>

InitTable ==
    \E img \in BootImages :
        /\ regs = ResetRegs
        /\ mmu = NewMMU(img)
        /\ fault = NoPanic
        /\ last = Built(img)
        /\ prev = NoOp
        /\ n = 0
        /\ execute = [i \in 0..511 |-> "nil"]
        /\ bindIdx = 0
        /\ peer = NoPeer
        /\ trace = <<>>

TableBind == DoBind
TableStep == bindIdx = 512 /\ n < MaxSteps /\ DoStep

NextTable == TableBind \/ TableStep

SpecTable == InitTable /\ [][NextTable]_vars

----------------------------------------------------------------------------
(* The register file driven directly through its accessors, as a unit test *)
(* of Registers does: any mix of pair setters and getters and of flag      *)
(* setters and getters on a register file.                                 *)

MaxRegCalls == 2  \* accessor calls explored on the register file

WordSamples == {0, 4660, 65535, 43605, 255, 4623}

FlagConsts == {ZeroFlag, SubtractFlag, HalfCarryFlag, CarryFlag}

PairSetters == {"setAF", "setBC", "setDE", "setHL"}
PairGetters == {"getAF", "getBC", "getDE", "getHL"}

CallSetter(r, name, v) ==
    CASE name = "setAF" -> setAF(r, v)
      [] name = "setBC" -> setBC(r, v)
      [] name = "setDE" -> setDE(r, v)
      [] OTHER          -> setHL(r, v)

CallGetter(r, name) ==
    CASE name = "getAF" -> getAF(r)
      [] name = "getBC" -> getBC(r)
      [] name = "getDE" -> getDE(r)
      [] OTHER          -> getHL(r)

\* r.setXX(v)
DoSetPair(name, v) ==
    /\ regs' = CallSetter(regs, name, v)
    /\ last' = Record(name, 0, v, 0, 0)
    /\ prev' = last
    /\ n' = n + 1
    /\ UNCHANGED <<execute, bindIdx, peer, trace>>
    /\ UNCHANGED <<mmu, fault>>

\* r.getXX()
DoGetPair(name) ==
    /\ last' = Record(name, 0, 0, CallGetter(regs, name), 0)
    /\ prev' = last
    /\ n' = n + 1
    /\ UNCHANGED <<execute, bindIdx, peer, trace>>
    /\ UNCHANGED <<regs, mmu, fault>>

\* r.setFlag(flag, set)
DoSetFlag(flag, set) ==
    /\ regs' = setFlag(regs, flag, set)
    /\ last' = Record("setFlag", flag, boolToUint8(set), 0, 0)
    /\ prev' = last
    /\ n' = n + 1
    /\ UNCHANGED <<execute, bindIdx, peer, trace>>
    /\ UNCHANGED <<mmu, fault>>

\* r.getFlag(flag)
DoGetFlag(flag) ==
    /\ last' = Record("getFlag", flag, 0, boolToUint8(getFlag(regs, flag)), 0)
    /\ prev' = last
    /\ n' = n + 1
    /\ UNCHANGED <<execute, bindIdx, peer, trace>>
    /\ UNCHANGED <<regs, mmu, fault>>

\* r.SetFlag(flag, set) of the earlier Registers file
DoSetFlagOld(flag, set) ==
    /\ regs' = SetFlag(regs, flag, set)
    /\ last' = Record("SetFlag", flag, boolToUint8(set), 0, 0)
    /\ prev' = last
    /\ n' = n + 1
    /\ UNCHANGED <<execute, bindIdx, peer, trace>>
    /\ UNCHANGED <<mmu, fault>>

\* r.GetFlag(flag) of the earlier Registers file
DoGetFlagOld(flag) ==
    /\ last' = Record("GetFlag", flag, 0, boolToUint8(GetFlag(regs, flag)), 0)
    /\ prev' = last
    /\ n' = n + 1
    /\ UNCHANGED <<execute, bindIdx, peer, trace>>
    /\ UNCHANGED <<regs, mmu, fault>>

\* r.addPC(value)
DoAddPC(value) ==
    /\ regs' = addPC(regs, value)
    /\ last' = Record("addPC", 0, value, 0, 0)
    /\ prev' = last
    /\ n' = n + 1
    /\ UNCHANGED <<execute, bindIdx, peer, trace>>
    /\ UNCHANGED <<mmu, fault>>

Displacements == {-128, -127, -2, -1, 0, 1, 2, 127}

PointerSamples == {0, 65535, 300}

InitRegs ==
    \E pc \in PointerSamples :
        \E r \in {[ResetRegs EXCEPT !.PC = pc], UniformRegs(255, 240, pc, 65534),
                  RotatedRegs(0, 165, pc, 65534)} :
            InitEngine(<<>>, <<0, TRUE>>, <<>>, r)

RegSetPair    == n < MaxRegCalls /\ \E name \in PairSetters, v \in WordSamples : DoSetPair(name, v)
RegGetPair    == n < MaxRegCalls /\ \E name \in PairGetters : DoGetPair(name)
RegSetFlag    == n < MaxRegCalls /\ \E f \in FlagConsts, b \in BOOLEAN : DoSetFlag(f, b)
RegGetFlag    == n < MaxRegCalls /\ \E f \in FlagConsts : DoGetFlag(f)
RegSetFlagOld == n < MaxRegCalls /\ \E f \in FlagConsts, b \in BOOLEAN : DoSetFlagOld(f, b)
RegGetFlagOld == n < MaxRegCalls /\ \E f \in FlagConsts : DoGetFlagOld(f)
RegAddPC      == n < MaxRegCalls /\ \E d \in Displacements : DoAddPC(d)

NextRegs ==
    RegSetPair \/ RegGetPair \/ RegSetFlag \/ RegGetFlag \/ RegSetFlagOld \/ RegGetFlagOld
        \/ RegAddPC

SpecRegs == InitRegs /\ [][NextRegs]_vars

----------------------------------------------------------------------------
(* halfCarryAdd applied to a pair of operand bytes, as a unit test of the  *)
(* helper does.                                                            *)

MaxAluCalls == 1  \* helper calls explored on each operand pair

\* halfCarryAdd(a, b); addr and value carry the operands
DoHalfCarryAdd ==
    /\ last' = Record("halfCarryAdd", last.addr, last.value,
                      boolToUint8(halfCarryAdd(last.addr, last.value)), 0)
    /\ prev' = last
    /\ n' = n + 1
    /\ UNCHANGED <<regs, mmu, fault, execute, bindIdx, peer, trace>>

InitAlu ==
    \E a \in 0..255, b \in 0..255 :
        /\ regs = ResetRegs
        /\ mmu = NewMMU(<<>>)
        /\ fault = NoPanic
        /\ last = [NoOp EXCEPT !.op = "operands", !.addr = a, !.value = b]
        /\ prev = NoOp
        /\ n = 0
        /\ execute = BoundTable
        /\ bindIdx = 512
        /\ peer = NoPeer
        /\ trace = <<>>

NextAlu == n < MaxAluCalls /\ DoHalfCarryAdd

SpecAlu == InitAlu /\ [][NextAlu]_vars

----------------------------------------------------------------------------
(* The generators' handling of dataset keys: a dataset holding one entry   *)
(* (the NOP row) under one key, in its unprefixed or its cbprefixed map,   *)
(* run through writeOpcodes, through buildDispatchMap, and the key through *)
(* parseHexToUint8.  A key is the sequence of its characters.              *)

MaxKeyLen   == 5  \* longest dataset key explored
MaxGenCalls == 1  \* generator runs explored on each dataset

LowerDigit == <<"0", "1", "2", "3", "4", "5", "6", "7", "8", "9", "a", "b", "c", "d", "e", "f">>

\* the characters keys are drawn from; none is a blank or a sign
KeyChars == {"0", "1", "F", "a", "x", "G"}

Keys == UNION {[1..k -> KeyChars] : k \in 0..MaxKeyLen}

\* the value of a hexadecimal digit of either case, -1 for any other character
DigitValue(ch) ==
    IF \E i \in 1..16 : HexDigit[i] = ch
    THEN (CHOOSE i \in 1..16 : HexDigit[i] = ch) - 1
    ELSE IF \E i \in 1..16 : LowerDigit[i] = ch
         THEN (CHOOSE i \in 1..16 : LowerDigit[i] = ch) - 1
         ELSE -1

\* the base-16 value of a sequence of hexadecimal digits
RECURSIVE HexValue(_)
HexValue(s) ==
    IF s = <<>> THEN 0 ELSE 16 * HexValue(SubSeq(s, 1, Len(s) - 1)) + DigitValue(s[Len(s)])

\* the longest prefix of s made of hexadecimal digits
RECURSIVE DigitRun(_)
DigitRun(s) ==
    IF s = <<>> \/ DigitValue(Head(s)) < 0 THEN <<>> ELSE <<Head(s)>> \o DigitRun(Tail(s))

\* fmt.Sprintf("0x%02X", v) for v in 0..255
Sprintf02X(v) == <<"0", "x", HexDigit[(v \div 16) + 1], HexDigit[(v % 16) + 1]>>

\* fmt.Sscanf(hexKey, "0x%X", &idxRaw): the literal 0x must match, then the
\* longest run of hexadecimal digits of either case is converted; an empty
\* run is an error and whatever follows the run is left unread
Sscanf(hexKey) ==
    IF Len(hexKey) < 2 \/ hexKey[1] # "0" \/ hexKey[2] # "x"
    THEN [err |-> TRUE, val |-> 0]
    ELSE LET tok == DigitRun(SubSeq(hexKey, 3, Len(hexKey)))
         IN  IF tok = <<>> THEN [err |-> TRUE, val |-> 0]
             ELSE [err |-> FALSE, val |-> HexValue(tok)]

\* strconv.ParseUint(s, 16, 8): every character a hexadecimal digit of either
\* case, at least one of them, and the value at most 0xFF
ParseUint(s) ==
    IF s = <<>> \/ \E i \in 1..Len(s) : DigitValue(s[i]) < 0
    THEN [err |-> TRUE, val |-> 0]
    ELSE IF HexValue(s) > 255 THEN [err |-> TRUE, val |-> 255]
         ELSE [err |-> FALSE, val |-> HexValue(s)]

parseHexToUint8(hex) ==
    IF Len(hex) < 2 \/ hex[1] # "0" \/ hex[2] # "x"
    THEN [err |-> TRUE, val |-> 0]
    ELSE LET parsed == ParseUint(SubSeq(hex, 3, Len(hex)))
         IN  IF parsed.err THEN [err |-> TRUE, val |-> 0] ELSE parsed

\* processOpcodes on a map with the given keys, each holding a row that has a
\* mnemonic and a grouped name: the indices entered in the dispatch map, or
\* the fatal error of a key Sscanf rejects
processOpcodes(set, offset) ==
    IF \E hexKey \in set : Sscanf(hexKey).err
    THEN [err |-> TRUE, slots |-> {}]
    ELSE [err |-> FALSE, slots |-> {offset + Sscanf(hexKey).val : hexKey \in set}]

\* buildDispatchMap: both maps of the dataset, the cbprefixed one offset by 256
buildDispatchMap(js) ==
    LET u == processOpcodes(js.Unprefixed, 0)
        c == processOpcodes(js.Cbprefixed, 256)
    IN  IF u.err \/ c.err THEN [err |-> TRUE, slots |-> {}]
        ELSE [err |-> FALSE, slots |-> u.slots \cup c.slots]

\* writeOpcodes: slot i is filled iff the map of its half holds the key that
\* Sprintf gives for i; keys no slot asks for are never read
writeOpcodes(js) ==
    [err   |-> FALSE,
     slots |-> {i \in 0..511 :
                  IF i < 256 THEN Sprintf02X(i) \in js.Unprefixed
                  ELSE Sprintf02X(i - 256) \in js.Cbprefixed}]

\* the dataset with the single key hexKey in the named map
Dataset(hexKey, section) ==
    [Unprefixed |-> IF section = "unprefixed" THEN {hexKey} ELSE {},
     Cbprefixed |-> IF section = "cbprefixed" THEN {hexKey} ELSE {}]

Sections == {"unprefixed", "cbprefixed"}

Fatal(who) == [on |-> TRUE, who |-> who, str |-> "", pc |-> 0]

\* one generator run on the dataset; value is the key, addr the map it is in
DoGenerate(who, section, res) ==
    /\ ~fault.on
    /\ last'  = Record(who, section, last.value, res.slots, 0)
    /\ fault' = IF res.err THEN Fatal(who) ELSE fault
    /\ prev' = last
    /\ n' = n + 1
    /\ UNCHANGED <<regs, mmu, execute, bindIdx, peer, trace>>

DoWriteOpcodes(section) ==
    DoGenerate("writeOpcodes", section, writeOpcodes(Dataset(last.value, section)))

DoBuildDispatchMap(section) ==
    DoGenerate("buildDispatchMap", section, buildDispatchMap(Dataset(last.value, section)))

DoParseHexToUint8 ==
    LET res == parseHexToUint8(last.value)
    IN  DoGenerate("parseHexToUint8", "", [err |-> res.err, slots |-> {res.val}])

InitGen ==
    \E hexKey \in Keys :
        /\ regs = ResetRegs
        /\ mmu = NewMMU(<<>>)
        /\ fault = NoPanic
        /\ last = [NoOp EXCEPT !.op = "dataset", !.value = hexKey]
        /\ prev = NoOp
        /\ n = 0
        /\ execute = <<>>    \* the generators are programs without the table
        /\ bindIdx = 0
        /\ peer = NoPeer
        /\ trace = <<>>

GenWrite    == n < MaxGenCalls /\ \E section \in Sections : DoWriteOpcodes(section)
GenDispatch == n < MaxGenCalls /\ \E section \in Sections : DoBuildDispatchMap(section)
GenParse    == n < MaxGenCalls /\ DoParseHexToUint8

NextGen == GenWrite \/ GenDispatch \/ GenParse

SpecGen == InitGen /\ [][NextGen]_vars

----------------------------------------------------------------------------
(* Properties of the addressable unit                                      *)

IsCall(h, op) == h.op = op

\* C1: a ReadByteAt call returns the overlay byte when the overlay is active
\* and the address is below 0x0100, and the main-space byte in every other case.
C1_ReadRouting ==
    IsCall(last, "ReadByteAt") =>
        last.ret = IF last.mmu0.bootEnabled /\ last.addr < 256
                   THEN ArrAt(last.mmu0.boot, last.addr)
                   ELSE ArrAt(last.mmu0.memory, last.addr)

\* a low read answered by the overlay although main memory holds another byte
C1_Witness ==
    /\ IsCall(last, "ReadByteAt")
    /\ last.addr < 256
    /\ mmu.bootEnabled
    /\ ArrAt(mmu.boot, last.addr) # ArrAt(mmu.memory, last.addr)
    /\ last.ret = ArrAt(mmu.boot, last.addr)

IsWrite(h, addr, value) == IsCall(h, "WriteByteAt") /\ h.addr = addr /\ h.value = value

\* C2: the overlay flag is set by NewMMU (address 0 reads the overlay), no call
\* or step sets it again once it is clear, and after WriteByteAt(0xFF50, 0x01)
\* address 0 reads main memory, also after a following WriteByteAt(0xFF50, 0x00).
C2_OneWayLatch ==
    /\ mmu.bootEnabled /\ ReadByteAt(mmu, 0) = ArrAt(mmu.boot, 0)
    /\ [][~mmu.bootEnabled => ~mmu'.bootEnabled]_vars
    /\ [](IsWrite(last, bootDisableReg, 1) => ReadByteAt(mmu, 0) = ArrAt(mmu.memory, 0))
    /\ []((IsWrite(prev, bootDisableReg, 1) /\ IsWrite(last, bootDisableReg, 0))
             => ReadByteAt(mmu, 0) = ArrAt(mmu.memory, 0))

\* 0x01 then 0x00 written to 0xFF50, with overlay and main memory differing at 0
C2_Witness ==
    /\ IsWrite(prev, bootDisableReg, 1)
    /\ IsWrite(last, bootDisableReg, 0)
    /\ ~mmu.bootEnabled
    /\ ArrAt(mmu.boot, 0) # ArrAt(mmu.memory, 0)

\* C3: a WriteByteAt call clears the overlay flag iff its address is 0xFF50 and
\* bit 0 of its value is 1, and leaves the flag as it was otherwise; reads leave
\* it alone, and a step changes it only by storing such a byte at 0xFF50.
C3_LatchTrigger ==
    /\ IsCall(last, "WriteByteAt") =>
          mmu.bootEnabled =
              (last.mmu0.bootEnabled /\ ~(last.addr = bootDisableReg /\ last.value % 2 = 1))
    /\ (IsCall(last, "ReadByteAt") \/ IsCall(last, "ReadWordAt")) =>
          mmu.bootEnabled = last.mmu0.bootEnabled
    /\ (IsCall(last, "Step") /\ mmu.bootEnabled # last.mmu0.bootEnabled) =>
          /\ last.mmu0.bootEnabled
          /\ ArrAt(mmu.memory, bootDisableReg) % 2 = 1

\* an even non-zero value written to 0xFF50 with the overlay still active afterwards
C3_Witness ==
    /\ IsWrite(last, bootDisableReg, 254)
    /\ last.mmu0.bootEnabled
    /\ mmu.bootEnabled

\* C4: WriteByteAt(a, v) stores v at memory[a] and changes no other main-space
\* byte and no overlay byte; a read of a right after returns v unless the
\* overlay shadows a, and a byte written below 0x0100 under the overlay is
\* read back once the overlay is retracted.
C4_WriteStores ==
    /\ IsCall(last, "WriteByteAt") =>
          /\ ArrAt(mmu.memory, last.addr) = last.value
          /\ \A x \in (DOMAIN mmu.memory \cup DOMAIN last.mmu0.memory) \ {last.addr} :
                ArrAt(mmu.memory, x) = ArrAt(last.mmu0.memory, x)
          /\ mmu.boot = last.mmu0.boot
          /\ (last.addr >= 256 \/ ~mmu.bootEnabled) => ReadByteAt(mmu, last.addr) = last.value
    /\ ( /\ IsCall(prev, "WriteByteAt") /\ prev.addr < 256 /\ prev.mmu0.bootEnabled
         /\ IsCall(last, "WriteByteAt") /\ last.addr = bootDisableReg /\ ~mmu.bootEnabled )
       => ReadByteAt(mmu, prev.addr) = prev.value

\* a byte written under the overlay at a low address, then the overlay retracted
C4_Witness ==
    /\ IsCall(prev, "WriteByteAt") /\ prev.addr < 256 /\ prev.mmu0.bootEnabled
    /\ prev.value # ArrAt(mmu.boot, prev.addr)
    /\ IsWrite(last, bootDisableReg, 1)
    /\ ~mmu.bootEnabled
    /\ ArrAt(mmu.memory, bootDisableReg) = 1

----------------------------------------------------------------------------
(* Properties of the engine                                                *)

\* the last call was a completed Step that dispatched one of the given slots
Ran(h, slots) == h.op = "Step" /\ h.idx \in slots

FlagBit(f, k) == (f \div (2 ^ k)) % 2 = 1

PushSlots == {197, 213, 229, 245}

\* the value of the pair a PUSH/POP slot names, high register first
PairValue(r, slot) ==
    CASE (slot \div 16) % 4 = 0 -> r.B * 256 + r.C
      [] (slot \div 16) % 4 = 1 -> r.D * 256 + r.E
      [] (slot \div 16) % 4 = 2 -> r.H * 256 + r.L
      [] OTHER                  -> r.A * 256 + r.F

PushedThenPopped ==
    /\ Ran(prev, PushSlots)
    /\ Ran(last, {prev.idx - 4})
    /\ ~fault.on

RoundTrip ==
    LET x == PairValue(prev.regs0, prev.idx)
    IN  PairValue(regs, last.idx) = IF prev.idx = 245 THEN x - (x % 16) ELSE x

\* the two stack bytes below s are not shadowed by an active overlay
Unshadowed(m, s) ==
    ~m.bootEnabled \/ (U16(s + 65535) >= 256 /\ U16(s + 65534) >= 256)

\* C5 as stated: PUSH rr followed at once by POP rr gives the pair its value
\* back (AF: with the low nibble cleared) and SP its value, for every stack
\* pointer and either overlay state.
C5_AsStated ==
    PushedThenPopped => (RoundTrip /\ regs.SP = prev.regs0.SP)

\* C5: PUSH rr followed at once by POP rr restores SP, and gives the pair its
\* value back (AF: with the low nibble cleared) whenever the overlay is
\* inactive or both stack bytes lie at or above 0x0100.
C5_PushPop ==
    PushedThenPopped =>
        /\ regs.SP = prev.regs0.SP
        /\ Unshadowed(prev.mmu0, prev.regs0.SP) => RoundTrip

\* AF with a non-zero low nibble pushed and popped under the active overlay
C5_Witness ==
    /\ PushedThenPopped
    /\ prev.idx = 245
    /\ prev.regs0.F % 16 # 0
    /\ last.mmu0.bootEnabled
    /\ regs.A = prev.regs0.A
    /\ regs.F = prev.regs0.F - (prev.regs0.F % 16)

JrCondSlots == {32, 40, 48, 56}

\* the condition a JR cond,e8 slot names, on flags f
CondHolds(slot, f) ==
    CASE slot = 32 -> ~FlagBit(f, 7)
      [] slot = 40 -> FlagBit(f, 7)
      [] slot = 48 -> ~FlagBit(f, 4)
      [] OTHER     -> FlagBit(f, 4)

\* the immediate byte following the opcode of the step recorded in h
Imm8(h) == ReadByteAt(h.mmu0, U16(h.addr + 1))

\* C6 as stated: every JR cond,e8 jumps and returns Cycles[0] iff the named
\* condition holds, and otherwise only consumes the offset and returns Cycles[1].
C6_AsStated ==
    (Ran(last, JrCondSlots) /\ ~fault.on) =>
        IF CondHolds(last.idx, last.regs0.F)
        THEN /\ regs.PC = U16(last.addr + 2 + Int8(Imm8(last)) + 65536)
             /\ last.ret = opcodes[last.idx].Cycles[1]
        ELSE /\ regs.PC = U16(last.addr + 2)
             /\ last.ret = opcodes[last.idx].Cycles[2]

\* C7: JR NZ,e8 fetched at p ends at p + 2 + e and returns 12 when the zero flag
\* is clear, ends at p + 2 and returns 8 when it is set, and changes nothing
\* else in the register file.
C7_JrNZ ==
    (Ran(last, {32}) /\ ~fault.on) =>
        IF ~FlagBit(last.regs0.F, 7)
        THEN /\ regs = [last.regs0 EXCEPT !.PC = U16(last.addr + 2 + Int8(Imm8(last)) + 65536)]
             /\ last.ret = 12
        ELSE /\ regs = [last.regs0 EXCEPT !.PC = U16(last.addr + 2)]
             /\ last.ret = 8

\* JR NZ taken backwards across address 0
C7_Witness ==
    /\ Ran(last, {32}) /\ ~fault.on
    /\ ~FlagBit(last.regs0.F, 7)
    /\ Imm8(last) = 251
    /\ last.addr = 0
    /\ regs.PC = 65533
    /\ last.ret = 12

\* C8 as stated: a step that ends in a panic leaves registers and memory as
\* they were before the step.
C8_AsStated ==
    (IsCall(last, "Step") /\ fault.on) => (regs = last.regs0 /\ mmu = last.mmu0)

\* C9 as stated: the panic of an unimplemented slot reports the address the
\* instruction's first byte was fetched from.
C9_AsStated ==
    (IsCall(last, "Step") /\ fault.on /\ fault.who = "OpUnimplemented") =>
        fault.pc = last.addr

IncSlots == {4, 12, 20, 28, 36, 44, 60}

\* C10: INC r sets r to (v + 1) mod 256, Z iff the result is 0, clears N, sets H
\* iff the low nibble of v was 0xF, and leaves C.
C10_IncR8 ==
    (Ran(last, IncSlots) /\ ~fault.on) =>
        LET name == R8Field[((last.idx \div 8) % 8) + 1]
            v    == last.regs0[name]
        IN  /\ regs[name] = (v + 1) % 256
            /\ FlagBit(regs.F, 7) = ((v + 1) % 256 = 0)
            /\ ~FlagBit(regs.F, 6)
            /\ FlagBit(regs.F, 5) = (v % 16 = 15)
            /\ FlagBit(regs.F, 4) = FlagBit(last.regs0.F, 4)

\* INC of 0xFF with N and C set before: Z and H set, N clear, C kept
C10_Witness ==
    /\ Ran(last, IncSlots) /\ ~fault.on
    /\ last.regs0[R8Field[((last.idx \div 8) % 8) + 1]] = 255
    /\ last.regs0.F = 240
    /\ regs.F = 176

LdR16Slots == {1, 17, 33, 49}

XorSlots == {168, 169, 170, 171, 172, 173, 175}

\* the 16-bit register an LD rr,n16 slot names
R16Value(r, slot) ==
    CASE slot = 1  -> r.B * 256 + r.C
      [] slot = 17 -> r.D * 256 + r.E
      [] slot = 33 -> r.H * 256 + r.L
      [] OTHER     -> r.SP

\* the second immediate byte following the opcode of the step recorded in h
Imm8b(h) == ReadByteAt(h.mmu0, U16(h.addr + 2))

LoadsLittleEndian ==
    (Ran(last, LdR16Slots) /\ ~fault.on) =>
        R16Value(regs, last.idx) = Imm8(last) + 256 * Imm8b(last)

XorResult ==
    (Ran(last, XorSlots) /\ ~fault.on) =>
        LET r == Xor8(last.regs0.A, last.regs0[R8Field[(last.idx % 8) + 1]])
        IN  /\ regs.A = r
            /\ FlagBit(regs.F, 7) = (r = 0)
            /\ ~FlagBit(regs.F, 6) /\ ~FlagBit(regs.F, 5) /\ ~FlagBit(regs.F, 4)

BitSlots == {i \in 320..383 : i % 8 # 6}

\* C12: BIT b,r sets Z iff bit b of r is 0, clears N, sets H, leaves C, and
\* leaves every register other than F and PC (the tested one included) as it was.
C12_Bit ==
    (Ran(last, BitSlots) /\ ~fault.on) =>
        LET b == (last.idx - 320) \div 8
            v == last.regs0[R8Field[(last.idx % 8) + 1]]
        IN  /\ FlagBit(regs.F, 7) = ~FlagBit(v, b)
            /\ ~FlagBit(regs.F, 6)
            /\ FlagBit(regs.F, 5)
            /\ FlagBit(regs.F, 4) = FlagBit(last.regs0.F, 4)
            /\ regs = [last.regs0 EXCEPT !.F = regs.F, !.PC = regs.PC]

\* BIT 7,H with bit 7 of H clear and N and C set before
C12_Witness ==
    /\ Ran(last, {380}) /\ ~fault.on
    /\ last.regs0.H = 127
    /\ last.regs0.F = 240
    /\ regs.F = 176
    /\ regs.H = 127

\* extended-prefixed RL r on a register: table indices 256 + 0x10 .. 256 + 0x17
RlSlots == {i \in 272..279 : i # 278}

RlaSlots == {23}

\* the register a rotate slot works on: A for RLA, the low three bits otherwise
RotatedName(slot) == IF slot \in RlaSlots THEN "A" ELSE R8Field[(slot % 8) + 1]

\* C13: RL r and RLA set the operand to ((old << 1) | carry_in) mod 256, C to
\* bit 7 of old, clear N and H; RL r sets Z iff the result is 0, RLA clears Z.
C13_Rotate ==
    (Ran(last, RlSlots \cup RlaSlots) /\ ~fault.on) =>
        LET old == last.regs0[RotatedName(last.idx)]
            cin == IF FlagBit(last.regs0.F, 4) THEN 1 ELSE 0
            res == (old * 2 + cin) % 256
        IN  /\ regs[RotatedName(last.idx)] = res
            /\ FlagBit(regs.F, 4) = (old >= 128)
            /\ ~FlagBit(regs.F, 6)
            /\ ~FlagBit(regs.F, 5)
            /\ FlagBit(regs.F, 7) = (last.idx \notin RlaSlots /\ res = 0)

\* RLA of 0x80 with carry clear and Z set before: the result is 0 and Z is cleared
C13_Witness ==
    /\ Ran(last, RlaSlots) /\ ~fault.on
    /\ last.regs0.A = 128
    /\ last.regs0.F = 128
    /\ regs.A = 0
    /\ regs.F = 16

CallSlots == {205}

\* C14: CALL a16 fetched at p stores the high byte of (p + 3) mod 2^16 at SP-1
\* and its low byte at SP-2, lowers SP by 2, sets PC to the immediate target,
\* and changes no flag and no other register.
C14_Call ==
    (Ran(last, CallSlots) /\ ~fault.on) =>
        LET ret == (last.addr + 3) % 65536
            s   == last.regs0.SP
            t   == Imm8(last) + 256 * Imm8b(last)
        IN  /\ ArrAt(mmu.memory, (s + 65535) % 65536) = ret \div 256
            /\ ArrAt(mmu.memory, (s + 65534) % 65536) = ret % 256
            /\ regs = [last.regs0 EXCEPT !.PC = t, !.SP = (s + 65534) % 65536]

\* CALL 0x1234 at 0x0200 with SP = 0x0001: the return address 0x0203 lands at
\* 0x0000 and 0xFFFF
C14_Witness ==
    /\ Ran(last, CallSlots) /\ ~fault.on
    /\ last.addr = 512
    /\ last.regs0.SP = 1
    /\ regs.SP = 65535
    /\ regs.PC = 4660
    /\ ArrAt(mmu.memory, 0) = 2
    /\ ArrAt(mmu.memory, 65535) = 3

PopSlots == {193, 209, 225, 241}

\* C15: a push with stack pointer s stores the high byte of the value at s-1 and
\* the low byte at s-2 and leaves SP = s-2; a pop with stack pointer s yields the
\* byte read at s as low byte and the byte read at s+1 as high byte, leaves
\* SP = s+2 and writes no memory (all addresses mod 2^16).
C15_StackBytes ==
    /\ (Ran(last, PushSlots) /\ ~fault.on) =>
          LET v == PairValue(last.regs0, last.idx)
              s == last.regs0.SP
          IN  /\ ArrAt(mmu.memory, (s + 65535) % 65536) = v \div 256
              /\ ArrAt(mmu.memory, (s + 65534) % 65536) = v % 256
              /\ regs.SP = (s + 65534) % 65536
    /\ (Ran(last, PopSlots) /\ ~fault.on) =>
          LET s   == last.regs0.SP
              val == ReadByteAt(last.mmu0, s) + 256 * ReadByteAt(last.mmu0, (s + 1) % 65536)
          IN  /\ PairValue(regs, last.idx) = IF last.idx = 241 THEN val - (val % 16) ELSE val
              /\ regs.SP = (s + 2) % 65536
              /\ mmu = last.mmu0

\* a push with SP = 0x0001: distinct high and low bytes land at 0x0000 and 0xFFFF
C15_Witness ==
    /\ Ran(last, PushSlots) /\ ~fault.on
    /\ last.regs0.SP = 1
    /\ regs.SP = 65535
    /\ ArrAt(mmu.memory, 0) = PairValue(last.regs0, last.idx) \div 256
    /\ ArrAt(mmu.memory, 65535) = PairValue(last.regs0, last.idx) % 256
    /\ ArrAt(mmu.memory, 0) # ArrAt(mmu.memory, 65535)

\* the byte at the instruction pointer when the step recorded in h began
Opcode(h) == ReadByteAt(h.mmu0, h.addr)

\* C16: a Step dispatches the slot named by the byte at PC, or slot 256 + the
\* next byte when that byte is 0xCB; the instruction pointer has advanced past
\* the one or two decoded bytes when the routine runs; slot 203 is never
\* dispatched.
C16_Decode ==
    IsCall(last, "Step") =>
        /\ last.idx = IF Opcode(last) = 203 THEN 256 + Imm8(last) ELSE Opcode(last)
        /\ last.idx # 203
        /\ (last.idx = 0 \/ (fault.on /\ fault.who = "OpUnimplemented")) =>
               regs.PC = (last.addr + IF Opcode(last) = 203 THEN 2 ELSE 1) % 65536

\* the bytes 0xCB 0xCB dispatch the extended slot 256 + 0xCB, not slot 203
C16_Witness ==
    /\ IsCall(last, "Step")
    /\ Opcode(last) = 203
    /\ Imm8(last) = 203
    /\ last.idx = 459
    /\ fault.on
    /\ regs.PC = (last.addr + 2) % 65536

----------------------------------------------------------------------------
(* Properties of the register file's accessors                             *)

\* the first and second register of the pair an accessor name ends in
PairHigh(r, name) ==
    CASE name \in {"setAF", "getAF"} -> r.A
      [] name \in {"setBC", "getBC"} -> r.B
      [] name \in {"setDE", "getDE"} -> r.D
      [] OTHER                       -> r.H

PairLow(r, name) ==
    CASE name \in {"setAF", "getAF"} -> r.F
      [] name \in {"setBC", "getBC"} -> r.C
      [] name \in {"setDE", "getDE"} -> r.E
      [] OTHER                       -> r.L

\* the getter that reads what a setter wrote
GetterOf(name) ==
    CASE name = "setAF" -> "getAF"
      [] name = "setBC" -> "getBC"
      [] name = "setDE" -> "getDE"
      [] OTHER          -> "getHL"

\* C17: after setBC(v) / setDE(v) / setHL(v) the first register of the pair
\* holds v >> 8, the second v & 0xFF, and the pair's getter returns v; after
\* setAF(v), A holds v >> 8 and getAF() returns v & 0xFFF0.
C17_PairRoundTrip ==
    /\ (last.op \in PairSetters) =>
          /\ PairHigh(regs, last.op) = last.value \div 256
          /\ (last.op # "setAF") => PairLow(regs, last.op) = last.value % 256
    /\ (prev.op \in PairSetters /\ last.op = GetterOf(prev.op)) =>
          last.ret = IF prev.op = "setAF" THEN prev.value - (prev.value % 16)
                                         ELSE prev.value

\* setAF(0x120F) then getAF(): the low nibble is dropped
C17_Witness ==
    /\ prev.op = "setAF"
    /\ prev.value = 4623
    /\ last.op = "getAF"
    /\ last.ret = 4608
    /\ regs.A = 18

FlagSetters == {"setFlag", "SetFlag"}

\* the getter that belongs to a flag setter
FlagGetterOf(name) == IF name = "setFlag" THEN "getFlag" ELSE "GetFlag"

\* a call of setter (f, b) makes bit f of F equal b and keeps the other seven
\* bits of F; the matching getter called next on f returns b
SetThenGet(setter) ==
    /\ (last.op = setter) =>
          \A k \in 0..7 :
              FlagBit(regs.F, k) = IF 2 ^ k = last.addr THEN last.value = 1
                                                       ELSE FlagBit(last.regs0.F, k)
    /\ (prev.op = setter /\ last.op = FlagGetterOf(setter) /\ last.addr = prev.addr) =>
          last.ret = prev.value

\* C18 as stated: for every flag constant f and boolean b, after the set-flag
\* operation with (f, b) the get-flag operation on f returns b and the other
\* three flag bits and the low nibble of F are unchanged; stated for both
\* set-flag operations of the repository, setFlag and the earlier SetFlag.
C18_AsStated ==
    \A setter \in FlagSetters : SetThenGet(setter)

\* the same property of setFlag / getFlag of registers.go alone
CurrentFlagAccessors == SetThenGet("setFlag")

----------------------------------------------------------------------------
(* Frame and cycle properties of the engine                                *)

\* the data-move, stack-push, call, relative-jump and no-op routines
FlagNeutralRoutines ==
    {"OpLdR8R8", "OpLdR8N8", "OpLdR16N16", "OpLdMemBCA", "OpLdMemHLR8", "OpLdhMemCA",
     "OpLdhMemImm8A", "OpLdAMemDE", "OpPushR16", "OpCallImm16", "OpJrCondImm8", "OpNop"}

\* C19: a completed step of a data-move, push, call, relative-jump or no-op
\* routine leaves F as it was; so does POP BC/DE/HL; POP AF sets F to the
\* popped low byte & 0xF0.
C19_FlagsFrame ==
    (IsCall(last, "Step") /\ ~fault.on) =>
        /\ (opcodes[last.idx].Execute \in FlagNeutralRoutines) => regs.F = last.regs0.F
        /\ (last.idx \in PopSlots \ {241}) => regs.F = last.regs0.F
        /\ (last.idx = 241) =>
              LET lo == ReadByteAt(last.mmu0, last.regs0.SP)
              IN  regs.F = lo - (lo % 16)

\* POP AF of a low byte with a non-zero low nibble changes F to its high nibble
C19_Witness ==
    /\ Ran(last, {241}) /\ ~fault.on
    /\ ReadByteAt(last.mmu0, last.regs0.SP) = 165
    /\ last.regs0.F # 160
    /\ regs.F = 160

\* every slot bound to the conditional jump routine declares two costs, every
\* other bound slot at least one
CycleListsLongEnough ==
    \A i \in 0..511 :
        /\ (opcodes[i].Execute = "OpJrCondImm8") => Len(opcodes[i].Cycles) >= 2
        /\ (opcodes[i].Execute # "OpUnimplemented") => Len(opcodes[i].Cycles) >= 1

\* C20: a completed Step returns a positive entry of the dispatched slot's cycle
\* list: the first entry, or for a conditional relative jump that was not taken
\* the second; no routine indexes the list past its length, and every slot
\* bound to the conditional jump routine declares two costs.
C20_Cycles ==
    /\ (IsCall(last, "Step") /\ ~fault.on) =>
          LET cyc == opcodes[last.idx].Cycles
          IN  /\ last.ret > 0
              /\ IF last.idx \notin JrCondSlots \/ regs.PC # (last.addr + 2) % 65536
                 THEN last.ret = cyc[1]
                 ELSE \/ last.ret = cyc[2]
                      \/ (Imm8(last) = 0 /\ last.ret = cyc[1])
    /\ fault.on => fault.who # "index out of range"
    /\ CycleListsLongEnough

\* a conditional jump with a non-zero offset that is not taken returns the
\* second cost
C20_Witness ==
    /\ Ran(last, JrCondSlots) /\ ~fault.on
    /\ Imm8(last) = 5
    /\ regs.PC = (last.addr + 2) % 65536
    /\ last.ret = opcodes[last.idx].Cycles[2]
    /\ last.ret # opcodes[last.idx].Cycles[1]

----------------------------------------------------------------------------
(* C21 *)

\* the byte the overlay rule routes to a read of address a in unit m
RoutedByte(m, a) ==
    IF m.bootEnabled /\ a < 256 THEN ArrAt(m.boot, a) ELSE ArrAt(m.memory, a)

\* C21: ReadWordAt(a) is ReadByteAt(a) + 256 * ReadByteAt((a + 1) mod 2^16),
\* each byte routed on its own through the overlay rule: at a = 0xFFFF the
\* high byte is the byte at 0x0000 (the overlay's while it is active), and at
\* a = 0x00FF with the overlay active the low byte is the overlay's and the
\* high byte is main memory's at 0x0100.
C21_ReadWord ==
    IsCall(last, "ReadWordAt") =>
        LET m == last.mmu0
            a == last.addr
        IN  /\ last.ret = RoutedByte(m, a) + 256 * RoutedByte(m, (a + 1) % 65536)
            /\ last.ret = ReadByteAt(m, a) + 256 * ReadByteAt(m, (a + 1) % 65536)
            /\ (a = 65535 /\ m.bootEnabled) =>
                   last.ret = ArrAt(m.memory, 65535) + 256 * ArrAt(m.boot, 0)
            /\ (a = 255 /\ m.bootEnabled) =>
                   last.ret = ArrAt(m.boot, 255) + 256 * ArrAt(m.memory, 256)

\* a word read at 0x00FF that takes 0x99 from the overlay and 0xFE from main
\* memory at 0x0100
C21_Witness ==
    /\ IsCall(last, "ReadWordAt") /\ last.addr = 255 /\ last.mmu0.bootEnabled
    /\ ArrAt(last.mmu0.boot, 255) = 153 /\ ArrAt(last.mmu0.memory, 256) = 254
    /\ last.ret = 65177

----------------------------------------------------------------------------
(* C22 *)

\* C22: addPC(d), for every instruction pointer p and every signed 8-bit
\* displacement d in -128..127, sets the instruction pointer to
\* (p + d) mod 2^16 with d sign-extended (p = 0x0000, d = -1 gives 0xFFFF and
\* p = 0xFFFF, d = 1 gives 0x0000) and changes no other register.
C22_AddPC ==
    IsCall(last, "addPC") =>
        LET p == last.regs0.PC
            d == last.value
        IN  /\ d \in -128..127
            /\ regs.PC = (p + d + 65536) % 65536
            /\ (p = 0 /\ d = -1) => regs.PC = 65535
            /\ (p = 65535 /\ d = 1) => regs.PC = 0
            /\ regs = [last.regs0 EXCEPT !.PC = regs.PC]

\* addPC(-1) at 0x0000 after addPC(1) at 0xFFFF: both wraps, one after the other
C22_Witness ==
    /\ IsCall(prev, "addPC") /\ prev.regs0.PC = 65535 /\ prev.value = 1
    /\ IsCall(last, "addPC") /\ last.regs0.PC = 0 /\ last.value = -1
    /\ regs.PC = 65535
    /\ regs.A = 255 /\ regs.F = 240

----------------------------------------------------------------------------
(* C23 *)

\* the routine slot i must hold once it is bound
ListedRoutine(i) ==
    IF i \in DOMAIN opcodesFunc THEN opcodesFunc[i] ELSE "OpUnimplemented"

\* slots the dataset gives no mnemonic, and slots whose pattern has no routine
NoMnemonicSlots ==
    {i \in 0..511 : opcodesEntry(i).Mnemonic \in {""} \cup IllegalMnemonics}
NoFamilySlots   == {i \in 0..511 : DispatchName(i) \notin Routines}

\* every slot below k holds its routine, every slot from k on is still unbound
BoundBelow(k) ==
    /\ \A i \in 0..511 :
          execute[i] = IF i < k THEN ListedRoutine(i) ELSE "nil"
    /\ \A i \in (NoMnemonicSlots \cup NoFamilySlots) :
          i < k => execute[i] = "OpUnimplemented"

\* C23: after table construction each of the 512 slots has exactly one bound
\* routine, the one the dispatch map lists for its index if there is one and
\* the unimplemented routine otherwise (slots with no mnemonic and slots whose
\* pattern has no family binding); and no Step modifies any table entry.
C23_Table ==
    /\ [](BoundBelow(bindIdx))
    /\ [](bindIdx = 512 => execute = BoundTable)
    /\ [][bindIdx = 512 => (execute' = execute /\ bindIdx' = bindIdx)]_vars

\* the built table after two Steps: NOP bound to its routine, the slot without
\* a mnemonic (0xD3) and the slot without a family (PREFIX) bound to
\* OpUnimplemented
C23_Witness ==
    /\ bindIdx = 512 /\ IsCall(last, "Step") /\ IsCall(prev, "Step")
    /\ execute[0] = "OpNop"
    /\ 211 \in NoMnemonicSlots /\ execute[211] = "OpUnimplemented"
    /\ 203 \in NoFamilySlots /\ 203 \notin NoMnemonicSlots /\ DispatchName(203) = ""
    /\ execute[203] = "OpUnimplemented"

----------------------------------------------------------------------------
(* C24 *)

\* C24: constructing the addressable unit from a boot image shorter than 256
\* bytes leaves the remaining overlay bytes zero, and constructing it from an
\* image longer than 256 bytes fails construction instead of truncating the
\* image to its first 256 bytes.
C24_AsStated ==
    IsCall(last, "NewMMU") =>
        LET img == last.value
            m   == last.ret
        IN  /\ Len(img) < 256 =>
                 \A a \in 0..255 :
                     ArrAt(m.boot, a) = IF a < Len(img) THEN img[a + 1] ELSE 0
            /\ Len(img) > 256 => fault.on

\* what NewMMU does: copy() moves the first min(len, 256) bytes of any image
\* into the overlay and construction never fails
C24_CopyTruncates ==
    IsCall(last, "NewMMU") =>
        LET img == last.value
            m   == last.ret
        IN  /\ \A a \in 0..255 :
                 ArrAt(m.boot, a) = IF a < Len(img) THEN img[a + 1] ELSE 0
            /\ m.bootEnabled /\ ~fault.on
            /\ \A a \in {0, 255, 256, 65535} : ArrAt(m.memory, a) = 0

\* a unit built without failure from the 257-byte image, its overlay holding
\* the image's first byte and its byte 0x0100 nowhere
C24_Witness ==
    /\ IsCall(last, "NewMMU") /\ Len(last.value) = 257 /\ ~fault.on
    /\ last.value[257] = 7
    /\ mmu = last.ret /\ ArrAt(mmu.boot, 0) = 60 /\ ArrAt(mmu.memory, 256) = 0

----------------------------------------------------------------------------
(* C25 *)

\* the key pattern: 0x followed by exactly two upper-case hexadecimal digits
WellFormedKey(hexKey) == \E v \in 0..255 : hexKey = Sprintf02X(v)

IsGeneratorRun(h) == h.op \in {"writeOpcodes", "buildDispatchMap", "parseHexToUint8"}

\* C25: table construction fails with an error for every dataset key that does
\* not match the "0x" + two-hex-digit pattern (no 0x prefix, lower-case digits,
\* trailing characters, a value above 0xFF); no such key is silently skipped,
\* silently truncated, or mapped to a slot.
C25_AsStated ==
    (IsGeneratorRun(last) /\ ~WellFormedKey(last.value)) => fault.on

\* what the three paths do with a key outside the pattern: writeOpcodes never
\* reads it; buildDispatchMap fails only without the 0x prefix or without a
\* digit after it, and otherwise enters the value of the leading digit run;
\* parseHexToUint8 fails unless the key is 0x and digits of a value up to 0xFF
C25_KeyHandling ==
    (IsGeneratorRun(last) /\ ~WellFormedKey(last.value)) =>
        LET hexKey == last.value
            pre    == Len(hexKey) >= 2 /\ hexKey[1] = "0" /\ hexKey[2] = "x"
            rest   == SubSeq(hexKey, 3, Len(hexKey))
        IN  /\ last.op = "writeOpcodes" => (~fault.on /\ last.ret = {})
            /\ last.op = "buildDispatchMap" =>
                 (fault.on <=> ~(pre /\ rest # <<>> /\ DigitValue(rest[1]) >= 0))
            /\ last.op = "parseHexToUint8" =>
                 (fault.on <=> ~(/\ pre /\ rest # <<>>
                                 /\ \A i \in 1..Len(rest) : DigitValue(rest[i]) >= 0
                                 /\ HexValue(rest) <= 255))

\* the dispatch map built without error from the key 0x100 of the unprefixed
\* map, the entry landing on slot 256
C25_Witness ==
    /\ last.op = "buildDispatchMap" /\ last.addr = "unprefixed"
    /\ last.value = <<"0", "x", "1", "0", "0">>
    /\ ~fault.on /\ last.ret = {256}

----------------------------------------------------------------------------
(* C26 *)

\* the carry out of bit 3 of a + b, added bit by bit from bit 0
RECURSIVE CarryInto(_, _, _)
CarryInto(a, b, k) ==
    IF k = 0 THEN 0
    ELSE LET bitA == (a \div (2^(k - 1))) % 2
             bitB == (b \div (2^(k - 1))) % 2
         IN  (bitA + bitB + CarryInto(a, b, k - 1)) \div 2

\* C26: for all pairs (a, b) of 8-bit operands, halfCarryAdd(a, b) is true iff
\* the addition a + b carries out of bit 3, that is iff
\* (a & 0x0F) + (b & 0x0F) > 0x0F.
C26_HalfCarry ==
    IsCall(last, "halfCarryAdd") =>
        LET a == last.addr
            b == last.value
        IN  /\ a \in 0..255 /\ b \in 0..255
            /\ (last.ret = 1) <=> (CarryInto(a, b, 4) = 1)
            /\ (last.ret = 1) <=> ((a % 16) + (b % 16) > 15)
            /\ last.ret \in {0, 1}

\* 0x0F + 0xF1: a carry out of bit 3 although the 8-bit sum 0x00 has bit 4 clear
C26_Witness ==
    /\ IsCall(last, "halfCarryAdd") /\ last.addr = 15 /\ last.value = 241
    /\ last.ret = 1

----------------------------------------------------------------------------
(* C27 *)

LowNibble(f) == f % 16

\* C27: from a register file whose flags register has a zero low nibble, the
\* low four bits of F are zero after any sequence of Steps: a Step that starts
\* with them zero ends with them zero, whatever the instruction, and so do the
\* two Steps of a run that started with them zero.
C27_LowNibble ==
    /\ (IsCall(last, "Step") /\ LowNibble(last.regs0.F) = 0) => LowNibble(regs.F) = 0
    /\ (IsCall(prev, "Step") /\ IsCall(last, "Step") /\ LowNibble(prev.regs0.F) = 0) =>
           (LowNibble(last.regs0.F) = 0 /\ LowNibble(regs.F) = 0)

\* POP AF, started with F = 0xF0, of a low byte whose low nibble is not zero
C27_Witness ==
    /\ Ran(last, {241}) /\ ~fault.on
    /\ last.regs0.F = 240
    /\ LowNibble(ReadByteAt(last.mmu0, last.regs0.SP)) # 0
    /\ regs.F = 160

----------------------------------------------------------------------------
(* C28 *)

LdMemHLSlots == (112..119 \ {118}) \cup {34, 50}

Odd(v) == v % 2 = 1

\* the word w pushed from stack pointer s puts an odd byte at 0xFF50
PushHitsLatch(s, w) ==
    \/ (s + 65535) % 65536 = 65360 /\ Odd(w \div 256)
    \/ (s + 65534) % 65536 = 65360 /\ Odd(w % 256)

\* the step recorded in h is an instruction that, from its pre-state, stores a
\* byte with bit 0 set at address 0xFF50
WritesOddToLatch(h) ==
    /\ IsCall(h, "Step")
    /\ LET r == h.regs0
       IN  \/ h.idx = 224 /\ Imm8(h) = 80 /\ Odd(r.A)
           \/ h.idx = 226 /\ r.C = 80 /\ Odd(r.A)
           \/ h.idx = 2 /\ r.B = 255 /\ r.C = 80 /\ Odd(r.A)
           \/ /\ h.idx \in LdMemHLSlots /\ r.H = 255 /\ r.L = 80
              /\ Odd(IF h.idx \in {34, 50} THEN r.A ELSE r[R8Field[(h.idx % 8) + 1]])
           \/ h.idx \in PushSlots /\ PushHitsLatch(r.SP, PairValue(r, h.idx))
           \/ h.idx \in CallSlots /\ PushHitsLatch(r.SP, (h.addr + 3) % 65536)

\* C28: every engine write path triggers the overlay latch: an instruction that
\* stores a byte with bit 0 set at 0xFF50 (LDH (a8),A, LDH (C),A, LD (BC),A,
\* LD (HL),r, or a PUSH/CALL whose stack write lands there) disables the
\* overlay, and from the next fetch on every read below 0x0100, opcode fetches
\* included, is served from main memory.
C28_Latch ==
    /\ (WritesOddToLatch(last) /\ ~fault.on) => ~mmu.bootEnabled
    /\ (WritesOddToLatch(prev) /\ IsCall(last, "Step")) =>
          LET mem == last.mmu0.memory
              pc  == last.addr
              de  == last.regs0.D * 256 + last.regs0.E
          IN  /\ ~last.mmu0.bootEnabled /\ ~mmu.bootEnabled
              /\ last.idx = IF ArrAt(mem, pc) = 203
                            THEN 256 + ArrAt(mem, (pc + 1) % 65536)
                            ELSE ArrAt(mem, pc)
              /\ (last.idx = 26 /\ ~fault.on) => regs.A = ArrAt(mem, de)

\* LD (BC),A with BC = 0xFF50 and A odd, run from the overlay; the next fetch,
\* at 0x0001 where the overlay holds INC A, dispatches main memory's NOP
C28_Witness ==
    /\ WritesOddToLatch(prev) /\ prev.idx = 2 /\ prev.mmu0.bootEnabled
    /\ IsCall(last, "Step") /\ last.addr = 1
    /\ ArrAt(last.mmu0.boot, 1) = 60 /\ last.idx = 0
    /\ ~fault.on

----------------------------------------------------------------------------
(* C29 *)

\* the slots with an 8-bit immediate: LD r,n8, LDH (a8),A and JR cond,e8
Imm8Slots == {6, 14, 22, 30, 38, 46, 62} \cup {224} \cup JrCondSlots

\* the number of bytes the instruction of a slot occupies
InstrLength(i) ==
    IF i >= 256 THEN 2
    ELSE IF i \in Imm8Slots THEN 2
    ELSE IF i \in LdR16Slots \cup CallSlots THEN 3
    ELSE 1

\* the step recorded in h took its relative jump: it returned the taken cost
JumpTaken(h) == h.idx \in JrCondSlots /\ h.ret = opcodes[h.idx].Cycles[1]

\* C29: a completed Step of an implemented instruction that is not a taken
\* jump or a call leaves the instruction pointer at (p + n) mod 2^16, p its
\* value before the step and n the bytes the instruction occupies: 1 without
\* immediate, 2 with an 8-bit immediate and for every extended-prefixed
\* instruction, 3 with a 16-bit immediate.
C29_Advance ==
    (IsCall(last, "Step") /\ ~fault.on /\ last.idx \notin CallSlots /\ ~JumpTaken(last)) =>
        /\ regs.PC = (last.regs0.PC + InstrLength(last.idx)) % 65536
        /\ InstrLength(last.idx) = opcodes[last.idx].Bytes
        /\ last.regs0.PC = last.addr

\* LD rr,n16 fetched at 0xFFFF: the pointer wraps to 0x0002
C29_Witness ==
    /\ Ran(last, LdR16Slots) /\ ~fault.on
    /\ last.regs0.PC = 65535 /\ regs.PC = 2

----------------------------------------------------------------------------
(* C30 *)

\* the register a LD (HL),r / LD (HL+),A / LD (HL-),A slot stores
StoredName(i) == IF i \in {34, 50} THEN "A" ELSE R8Field[(i % 8) + 1]

\* what the slot adds to HL: 1 for LD (HL+),A, -1 mod 2^16 for LD (HL-),A
HLStep(i) == IF i = 34 THEN 1 ELSE IF i = 50 THEN 65535 ELSE 0

\* C30: LD (HL),r, LD (HL+),r and LD (HL-),r store the value the source
\* register held before the step at the address HL held before the step, then
\* leave HL at that address unchanged, plus 1 mod 2^16, or minus 1 mod 2^16;
\* also when the source is H or L and when HL is 0x0000 or 0xFFFF.
C30_LdMemHL ==
    (Ran(last, LdMemHLSlots) /\ ~fault.on) =>
        LET r   == last.regs0
            hl  == r.H * 256 + r.L
            old == OpLdMemHLDecA([Registers |-> [r EXCEPT !.PC = (@ + 1) % 65536],
                                  Mmu |-> last.mmu0], opcodes[50])
        IN  /\ ArrAt(mmu.memory, hl) = r[StoredName(last.idx)]
            /\ regs.H * 256 + regs.L = (hl + HLStep(last.idx)) % 65536
            /\ mmu.boot = last.mmu0.boot
            /\ \A a \in {0, 1, 255, 256, 65534, 65535} \ {hl} :
                   ArrAt(mmu.memory, a) = ArrAt(last.mmu0.memory, a)
            /\ regs = [r EXCEPT !.H = regs.H, !.L = regs.L, !.PC = (@ + 1) % 65536]
            /\ last.idx = 50 =>
                   /\ ArrAt(old.cpu.Mmu.memory, hl) = r.A
                   /\ old.cpu.Registers.H * 256 + old.cpu.Registers.L = (hl + 65535) % 65536
                   /\ old.cpu.Registers = regs /\ old.cpu.Mmu = mmu

\* LD (HL+),A with HL = 0xFFFF: 0xFF stored at 0xFFFF and HL wrapped to 0x0000
C30_Witness ==
    /\ Ran(last, {34}) /\ ~fault.on
    /\ last.regs0.H = 255 /\ last.regs0.L = 255 /\ last.regs0.A = 255
    /\ ArrAt(last.mmu0.memory, 65535) # 255
    /\ ArrAt(mmu.memory, 65535) = 255
    /\ regs.H = 0 /\ regs.L = 0

----------------------------------------------------------------------------
(* The stack driven over sequences: any mix of cpu.pushWord(v),            *)
(* cpu.popWord() and Steps of a PUSH/POP program held in main memory at    *)
(* 0x0200.  trace keeps one entry per call: what it was (push, pop or      *)
(* other), the word pushed or returned, SP before and after, whether the   *)
(* overlay was active when the call began and, for a Step, the slot it     *)
(* dispatched and the value its register pair holds afterwards.            *)

MaxStackCalls == 6    \* calls explored on the stack: up to 3 pushes, 3 pops

StackEntry(op, value, r1, idx, pair) ==
    [op |-> op, value |-> value, sp0 |-> regs.SP, sp1 |-> r1.SP,
     enabled0 |-> mmu.bootEnabled, idx |-> idx, pair |-> pair]

\* cpu.pushWord(v)
DoPushWord(v) ==
    /\ ~fault.on
    /\ LET c == pushWord(cpu, v)
       IN  /\ regs'  = c.Registers
           /\ mmu'   = c.Mmu
           /\ trace' = Append(trace, StackEntry("push", v, c.Registers, 0, 0))
    /\ last' = Record("pushWord", regs.SP, v, 0, 0)
    /\ prev' = last
    /\ n' = n + 1
    /\ UNCHANGED <<fault, execute, bindIdx, peer>>

\* v := cpu.popWord()
DoPopWord ==
    /\ ~fault.on
    /\ LET p == popWord(cpu)
       IN  /\ regs'  = p.cpu.Registers
           /\ mmu'   = p.cpu.Mmu
           /\ trace' = Append(trace, StackEntry("pop", p.val, p.cpu.Registers, 0, 0))
           /\ last'  = Record("popWord", regs.SP, 0, p.val, 0)
    /\ prev' = last
    /\ n' = n + 1
    /\ UNCHANGED <<fault, execute, bindIdx, peer>>

\* cycles := cpu.Step() with the call entered in trace: a completed PUSH rr
\* is a push of the pair's value, a completed POP rr a pop of the word
\* popWord returned to OpPopR16
DoStackStep ==
    /\ ~fault.on
    /\ \E d \in {decode(cpu)}, res \in {Step(cpu)} :
       LET r1  == res.cpu.Registers
           op  == IF res.panic.on THEN "other"
                  ELSE IF d.idx \in PushSlots THEN "push"
                  ELSE IF d.idx \in PopSlots THEN "pop" ELSE "other"
           v   == IF d.idx \in PushSlots THEN PairValue(regs, d.idx)
                  ELSE IF d.idx \in PopSlots THEN popWord(d.cpu).val ELSE 0
       IN  /\ regs'  = r1
           /\ mmu'   = res.cpu.Mmu
           /\ fault' = res.panic
           /\ last'  = Record("Step", regs.PC, 0, res.cycles, d.idx)
           /\ trace' = Append(trace, StackEntry(op, v, r1, d.idx, PairValue(r1, d.idx)))
    /\ prev' = last
    /\ n' = n + 1
    /\ UNCHANGED <<execute, bindIdx, peer>>

\* PUSH BC, DE, HL then POP HL, DE, BC; PUSH BC, DE then POP BC, DE (a
\* swap); PUSH AF, BC then POP BC, AF
PushPopPrograms ==
    {<<197, 213, 229, 225, 209, 193>>, <<197, 213, 193, 209>>, <<245, 197, 193, 241>>}

\* stack pointers: the top of memory, the wrap at 0x0000, the three words
\* just above the overlay's range, one word above that and the words that
\* end on the disable register
StackTops == {65534, 2, 262, 260, 65362}

PushValues == {4660, 43775}    \* 0x1234, 0xAAFF

StackRegs(sp) ==
    [A |-> 1, F |-> 165, B |-> 18, C |-> 52, D |-> 86, E |-> 120, H |-> 154, L |-> 189,
     PC |-> 512, SP |-> sp]

InitStack ==
    \E prog \in PushPopPrograms, sp \in StackTops, active \in BOOLEAN :
        /\ regs = StackRegs(sp)
        /\ mmu = Construct(StackImage, active, 512, prog)
        /\ fault = NoPanic
        /\ last = Built(StackImage)
        /\ prev = NoOp
        /\ n = 0
        /\ execute = BoundTable
        /\ bindIdx = 512
        /\ peer = NoPeer
        /\ trace = <<>>

StackPush == n < MaxStackCalls /\ \E v \in PushValues : DoPushWord(v)
StackPop  == n < MaxStackCalls /\ DoPopWord
StackStep == n < MaxStackCalls /\ DoStackStep

NextStack == StackPush \/ StackPop \/ StackStep

SpecStack == InitStack /\ [][NextStack]_vars

----------------------------------------------------------------------------
(* Properties of the stack over sequences                                  *)

\* trace t is k pushes followed by at most k pops and nothing else
PushesThenPops(t, k) ==
    /\ Len(t) <= 2 * k
    /\ \A i \in 1..Len(t) : t[i].op = IF i <= k THEN "push" ELSE "pop"

\* the two bytes the pop of entry e read were not shadowed by the overlay
Readable(e) ==
    ~e.enabled0 \/ (e.sp0 >= 256 /\ U16(e.sp0 + 1) >= 256)

\* what POP rr leaves in the pair for a popped word v: AF drops F's low nibble
PairAfterPop(idx, v) == IF idx = 241 THEN v - (v % 16) ELSE v

\* C31: every push (pushWord or PUSH rr) lowers SP by 2 and every pop
\* (popWord or POP rr) raises it by 2, modulo 2^16; after k pushes of
\* x1..xk, the j-th pop returns x(k+1-j) whenever the two bytes it reads are
\* not shadowed by the active overlay, and after the k-th pop SP is back at
\* its value before the first push; POP rr stores the popped word in its pair.
C31_Lifo ==
    /\ \A i \in 1..Len(trace) :
          /\ trace[i].op = "push" => trace[i].sp1 = U16(trace[i].sp0 + 65534)
          /\ trace[i].op = "pop"  => trace[i].sp1 = U16(trace[i].sp0 + 2)
          /\ (trace[i].op = "pop" /\ trace[i].idx \in PopSlots) =>
                 trace[i].pair = PairAfterPop(trace[i].idx, trace[i].value)
    /\ \A k \in 1..Len(trace) :
          PushesThenPops(trace, k) =>
             /\ \A i \in (k + 1)..Len(trace) :
                   Readable(trace[i]) => trace[i].value = trace[2 * k + 1 - i].value
             /\ Len(trace) = 2 * k => regs.SP = trace[1].sp0

\* PUSH BC, PUSH DE, pushWord(v), popWord(), POP BC, POP DE just above the
\* active overlay's range: the pops return v, DE's word and BC's word
C31_Witness ==
    /\ Len(trace) = 6 /\ PushesThenPops(trace, 3)
    /\ mmu.bootEnabled /\ trace[1].sp0 = 262
    /\ trace[1].idx = 197 /\ trace[2].idx = 213 /\ trace[3].idx = 0
    /\ trace[4].idx = 0 /\ trace[5].idx = 193 /\ trace[6].idx = 209
    /\ trace[1].value # trace[2].value /\ trace[2].value # trace[3].value
    /\ trace[4].value = trace[3].value
    /\ trace[5].value = trace[2].value /\ regs.B * 256 + regs.C = trace[2].value
    /\ trace[6].value = trace[1].value /\ regs.D * 256 + regs.E = trace[1].value
    /\ regs.SP = 262

----------------------------------------------------------------------------
(* Properties of the overlay's contents                                    *)

\* C32: no call on the addressable unit and no Step changes any of the 256
\* overlay bytes: whatever the address and value written, m.boot stays as
\* NewMMU left it.
C32_OverlayFixed == [][mmu'.boot = mmu.boot]_vars

\* the overlay is active and holds INC A; LD (BC),A; WriteByteAt(0x00FF, 254)
\* and the Step of LD (BC),A have stored 254 at 0x00FF and 1 at 0x0000 in
\* main memory, and the overlay bytes there are still 0 and 0x3C
C32_Witness ==
    /\ IsCall(last, "Step") /\ last.idx = 2 /\ last.addr = 1
    /\ mmu.bootEnabled
    /\ ArrAt(mmu.memory, 0) = 1 /\ ArrAt(mmu.boot, 0) = 60
    /\ ArrAt(mmu.memory, 255) = 254 /\ ArrAt(mmu.boot, 255) = 0
    /\ mmu.boot = NewMMU(StoreImage).boot

----------------------------------------------------------------------------
(* Frame properties of a Step                                              *)

\* the routines of the register-only instructions (NOP, LD r,r, LD r,n8,
\* LD rr,n16, INC r, XOR A,r, BIT b,r, RL r, RLA, JR cond,e8) and of the
\* memory-read instructions (LD A,(DE), POP rr)
NoStoreRoutines ==
    {"OpNop", "OpLdR8R8", "OpLdR8N8", "OpLdR16N16", "OpIncR8", "OpXorAR8", "OpCbBitBR8",
     "OpCbRlR8", "OpRla", "OpJrCondImm8", "OpLdAMemDE", "OpPopR16"}

\* the slots main binds to one of them
NoStoreSlots == {i \in 0..511 : BoundTable[i] \in NoStoreRoutines}

SameData(r, s) ==
    /\ r.A = s.A /\ r.F = s.F /\ r.B = s.B /\ r.C = s.C
    /\ r.D = s.D /\ r.E = s.E /\ r.H = s.H /\ r.L = s.L

\* C33: a Step of a register-only or memory-read instruction leaves main
\* memory, the overlay bytes and the overlay flag as they were, and a Step of
\* PUSH rr leaves A, F, B, C, D, E, H and L as they were.
C33_Frame ==
    /\ Ran(last, NoStoreSlots) =>
          /\ mmu.memory = last.mmu0.memory
          /\ mmu.boot = last.mmu0.boot
          /\ mmu.bootEnabled = last.mmu0.bootEnabled
    /\ Ran(last, PushSlots) => SameData(regs, last.regs0)

\* PUSH BC then POP DE from main memory: the push moved SP and PC only and
\* stored BC's two bytes, the pop read them into DE and stored nothing
C33_Witness ==
    /\ Ran(prev, {197}) /\ Ran(last, {209}) /\ ~fault.on
    /\ SameData(last.regs0, prev.regs0)
    /\ last.regs0.SP # prev.regs0.SP /\ last.regs0.PC # prev.regs0.PC
    /\ last.mmu0.memory # prev.mmu0.memory
    /\ mmu = last.mmu0
    /\ regs.D = prev.regs0.B /\ regs.E = prev.regs0.C
    /\ regs.D # prev.regs0.D

----------------------------------------------------------------------------
(* ins.go: the per-opcode routines the families replaced, and a Step run   *)
(* under both bindings of its slot: the family routine main binds today    *)
(* and the per-opcode routine the slot was bound to before.                *)

OpXorAA(c, instr) ==
    LET orig   == getA(c.Registers)
        result == Xor8(orig, orig)
        r1     == setA(c.Registers, result)
        r2     == setFlag(r1, ZeroFlag, TRUE)
        r3     == setFlag(r2, SubtractFlag, FALSE)
        r4     == setFlag(r3, HalfCarryFlag, FALSE)
        r5     == setFlag(r4, CarryFlag, FALSE)
    IN  ReturnCycles([c EXCEPT !.Registers = r5], instr, 0)

OpCbBit7H(c, instr) ==
    LET h    == getH(c.Registers)
        b7   == (h \div 128) % 2
        zero == b7 = 0
        r1   == setFlag(c.Registers, ZeroFlag, zero)
        r2   == setFlag(r1, SubtractFlag, FALSE)
        r3   == setFlag(r2, HalfCarryFlag, TRUE)
    IN  ReturnCycles([c EXCEPT !.Registers = r3], instr, 0)

OpJrNZE8(c, instr) ==
    LET f == fetchByte(c)
    IN  IF ~getFlag(f.cpu.Registers, ZeroFlag)
        THEN ReturnCycles([f.cpu EXCEPT !.Registers = addPC(@, Int8(f.val))], instr, 0)
        ELSE ReturnCycles(f.cpu, instr, 1)

OpIncC(c, instr) ==
    LET orig == getC(c.Registers)
        res  == U8(orig + 1)
        r1   == setC(c.Registers, res)
    IN  ReturnCycles([c EXCEPT !.Registers = inc8Flags(r1, orig, res)], instr, 0)

OpPushBC(c, instr) ==
    ReturnCycles(pushWord(c, getBC(c.Registers)), instr, 0)

OpCbRlC(c, instr) ==
    LET old      == getC(c.Registers)
        carryIn  == IF getFlag(c.Registers, CarryFlag) THEN 1 ELSE 0
        newCarry == (old \div 128) % 2 = 1
        result   == Or8(And8(U8(old * 2), 254), carryIn)
        r1       == setC(c.Registers, result)
        r2       == setFlag(r1, ZeroFlag, result = 0)
        r3       == setFlag(r2, SubtractFlag, FALSE)
        r4       == setFlag(r3, HalfCarryFlag, FALSE)
        r5       == setFlag(r4, CarryFlag, newCarry)
    IN  ReturnCycles([c EXCEPT !.Registers = r5], instr, 0)

OpPopBC(c, instr) ==
    LET p == popWord(c)
    IN  ReturnCycles([p.cpu EXCEPT !.Registers = setBC(@, p.val)], instr, 0)

\* the slots that had a routine of their own: INC C, JR NZ, LD (HL-),A,
\* XOR A,A, POP BC, PUSH BC, RL C, BIT 7,H
PerOpcode ==
    (12 :> "OpIncC") @@ (32 :> "OpJrNZE8") @@ (50 :> "OpLdMemHLDecA") @@
    (175 :> "OpXorAA") @@ (193 :> "OpPopBC") @@ (197 :> "OpPushBC") @@
    (273 :> "OpCbRlC") @@ (380 :> "OpCbBit7H")

\* instr.Execute(cpu, &instr) with the slot bound to its per-opcode routine
ExecutePerOpcode(c, instr, idx) ==
    CASE PerOpcode[idx] = "OpIncC"        -> OpIncC(c, instr)
      [] PerOpcode[idx] = "OpJrNZE8"      -> OpJrNZE8(c, instr)
      [] PerOpcode[idx] = "OpLdMemHLDecA" -> OpLdMemHLDecA(c, instr)
      [] PerOpcode[idx] = "OpXorAA"       -> OpXorAA(c, instr)
      [] PerOpcode[idx] = "OpPopBC"       -> OpPopBC(c, instr)
      [] PerOpcode[idx] = "OpPushBC"      -> OpPushBC(c, instr)
      [] PerOpcode[idx] = "OpCbRlC"       -> OpCbRlC(c, instr)
      [] OTHER                            -> OpCbBit7H(c, instr)

MaxFamilyCalls == 2    \* instructions run under both bindings

\* one instruction decoded, then run from the same registers and memory by
\* the family routine and by the per-opcode routine; last keeps the family
\* routine's outcome in ret and the other's in value, and the engine goes on
\* from the family routine's
DoBothRoutines ==
    /\ ~fault.on
    /\ \E d \in {decode(cpu)} :
          /\ d.idx \in DOMAIN PerOpcode
          /\ \E fam \in {Execute(d.cpu, d.instr)},
                old \in {ExecutePerOpcode(d.cpu, d.instr, d.idx)} :
                /\ regs'  = fam.cpu.Registers
                /\ mmu'   = fam.cpu.Mmu
                /\ fault' = fam.panic
                /\ last'  = Record("routines", regs.PC, old, fam, d.idx)
    /\ prev' = last
    /\ n' = n + 1
    /\ UNCHANGED <<execute, bindIdx, peer, trace>>

\* every slot on its own, and pairs where the first instruction's flags or
\* stack bytes feed the second: INC C; JR NZ, BIT 7,H; JR NZ, PUSH BC; POP BC,
\* XOR A,A; LD (HL-),A, RL C; RL C
FamilyPrograms ==
    {<<12>>, <<175>>, <<50>>, <<193>>, <<197>>, <<203, 17>>, <<203, 124>>}
      \cup {<<32, e>> : e \in {0, 5, 127, 128, 251, 255}}
      \cup {<<12, 32, 5>>, <<203, 124, 32, 251>>, <<197, 193>>, <<175, 50>>,
            <<203, 17, 203, 17>>}

InitFamilies ==
    \E prog \in FamilyPrograms, start \in {<<0, TRUE>>, <<512, TRUE>>, <<65534, FALSE>>},
       f \in FlagSamples, sp \in {65534, 2, 258} :
       \E r \in RegFiles(f, start[1], sp) :
          IF start[1] < 256
          THEN InitEngine(ImageWith(start[1], prog), start, <<>>, r)
          ELSE InitEngine(StackImage, start, prog, r)

NextFamilies == n < MaxFamilyCalls /\ DoBothRoutines

SpecFamilies == InitFamilies /\ [][NextFamilies]_vars

----------------------------------------------------------------------------
(* Properties of the family routines against the per-opcode routines       *)

\* the family each of the slots is bound to today
FamilyOf ==
    (12 :> "OpIncR8") @@ (32 :> "OpJrCondImm8") @@ (50 :> "OpLdMemHLR8") @@
    (175 :> "OpXorAR8") @@ (193 :> "OpPopR16") @@ (197 :> "OpPushR16") @@
    (273 :> "OpCbRlR8") @@ (380 :> "OpCbBitBR8")

FamiliesBound == \A i \in DOMAIN PerOpcode : BoundTable[i] = FamilyOf[i]

\* C34: on the operands of INC C, XOR A,A, RL C, BIT 7,H, LD (HL-),A, POP BC,
\* PUSH BC and JR NZ,e8, the family routine bound to the slot and the earlier
\* per-opcode routine, run from the same registers and memory, both complete
\* and leave identical registers, flags, memory and overlay and return the
\* same cycle count.
C34_Families ==
    /\ FamiliesBound
    /\ IsCall(last, "routines") =>
          /\ ~last.ret.panic.on /\ ~last.value.panic.on
          /\ last.ret.cpu.Registers = last.value.cpu.Registers
          /\ last.ret.cpu.Mmu = last.value.cpu.Mmu
          /\ last.ret.cycles = last.value.cycles

\* BIT 7,H with bit 7 of H clear set the zero flag, then JR NZ,-5 was not
\* taken and cost its second cycle count under both bindings
C34_Witness ==
    /\ IsCall(prev, "routines") /\ prev.idx = 380
    /\ IsCall(last, "routines") /\ last.idx = 32
    /\ prev.regs0.H < 128 /\ ~FlagBit(prev.regs0.F, 7) /\ FlagBit(last.regs0.F, 7)
    /\ last.value.cycles = 8 /\ last.ret.cycles = 8
    /\ last.value.cpu.Registers.PC = U16(last.addr + 2)
    /\ regs = last.value.cpu.Registers

----------------------------------------------------------------------------
(* Two engine instances in one process, as a host running two emulators    *)
(* builds them: each &CPU{Mmu: NewMMU(), Registers: &Registers{...}} has    *)
(* its own register file and addressable unit; the opcode table and the    *)
(* embedded boot image are shared.  regs and mmu are the first instance,   *)
(* peer the second.  The host calls Step on either in any order; a Step    *)
(* reads and writes through its own cpu pointer only, so the calls are     *)
(* interleaved whole.  trace starts with the two constructions and gets    *)
(* one entry per Step: the instance, its state before and after, the       *)
(* cycles returned and whether the Step panicked (which ends the process). *)

MaxPairSteps == 6    \* Steps explored over the two instances together

PairEntry(who, op, before, res) ==
    [who |-> who, op |-> op, before |-> before, after |-> res.cpu,
     cycles |-> res.cycles, panic |-> res.panic.on]

\* variant: the second instance was built around the first one's Mmu pointer
DoPeerStep_SharedMmu ==
    /\ ~fault.on
    /\ \E c \in {[Registers |-> peer.Registers, Mmu |-> mmu]} :
       \E d \in {decode(c)}, res \in {Step(c)} :
          /\ peer'  = res.cpu
          /\ mmu'   = res.cpu.Mmu
          /\ fault' = res.panic
          /\ last'  = [op |-> "Step", addr |-> c.Registers.PC, value |-> 0,
                       ret |-> res.cycles, idx |-> d.idx,
                       regs0 |-> c.Registers, mmu0 |-> c.Mmu]
          /\ trace' = Append(trace, PairEntry(2, "Step", c, res))
    /\ prev' = last
    /\ n' = n + 1
    /\ UNCHANGED <<regs, execute, bindIdx>>

\* cycles := second.Step()
DoPeerStep ==
    /\ ~fault.on
    /\ \E d \in {decode(peer)}, res \in {Step(peer)} :
          /\ peer'  = res.cpu
          /\ fault' = res.panic
          /\ last'  = [op |-> "Step", addr |-> peer.Registers.PC, value |-> 0,
                       ret |-> res.cycles, idx |-> d.idx,
                       regs0 |-> peer.Registers, mmu0 |-> peer.Mmu]
          /\ trace' = Append(trace, PairEntry(2, "Step", peer, res))
    /\ prev' = last
    /\ n' = n + 1
    /\ UNCHANGED <<regs, mmu, execute, bindIdx>>

\* cycles := first.Step()
DoOwnStep ==
    /\ ~fault.on
    /\ \E d \in {decode(cpu)}, res \in {Step(cpu)} :
          /\ regs'  = res.cpu.Registers
          /\ mmu'   = res.cpu.Mmu
          /\ fault' = res.panic
          /\ last'  = Record("Step", regs.PC, 0, res.cycles, d.idx)
          /\ trace' = Append(trace, PairEntry(1, "Step", cpu, res))
    /\ prev' = last
    /\ n' = n + 1
    /\ UNCHANGED <<execute, bindIdx, peer>>

\* the shared boot image: INC A; PUSH BC; LDH (0x50),A; INC A -- from A = 0
\* the third Step retracts the overlay of the instance that runs it
PairImage == <<60, 197, 224, 80, 60>>

\* cartridge programs at 0x0200: PUSH BC; POP DE; LD A,(DE); XOR A,A --
\* LD (HL-),A; INC C; JR NZ,-5 (a loop) -- PUSH BC; an illegal opcode
PairPrograms == {<<197, 209, 26, 175>>, <<50, 12, 32, 251>>, <<197, 211>>}

\* how an instance is set up: from reset in the overlay, or at a cartridge
\* program with the overlay active or already retracted
Instances ==
    {[Registers |-> ResetRegs, Mmu |-> NewMMU(PairImage)]}
      \cup {[Registers |-> StackRegs(sp), Mmu |-> Construct(PairImage, active, 512, prog)] :
               prog \in PairPrograms, active \in BOOLEAN, sp \in {65534, 258}}

InitPair ==
    \E c1 \in Instances, c2 \in Instances :
        /\ regs = c1.Registers
        /\ mmu = c1.Mmu
        /\ peer = c2
        /\ fault = NoPanic
        /\ last = Built(PairImage)
        /\ prev = NoOp
        /\ n = 0
        /\ execute = BoundTable
        /\ bindIdx = 512
        /\ trace = <<PairEntry(1, "new", c1, Done(c1, 0)), PairEntry(2, "new", c2, Done(c2, 0))>>

PairOwn  == n < MaxPairSteps /\ DoOwnStep
PairPeer == n < MaxPairSteps /\ DoPeerStep

NextPair == PairOwn \/ PairPeer

SpecPair == InitPair /\ [][NextPair]_vars

----------------------------------------------------------------------------
(* Properties of two instances                                             *)

\* the entries of instance who, oldest first; the first is its construction
EntriesOf(who) == SelectSeq(trace, LAMBDA e : e.who = who)

\* the outcomes of k Steps of an instance run on its own from c
RECURSIVE Alone(_, _)
Alone(c, k) ==
    IF k = 0 THEN <<>>
    ELSE LET res == Step(c)
         IN  <<[after |-> res.cpu, cycles |-> res.cycles, panic |-> res.panic.on]>>
                 \o Alone(res.cpu, k - 1)

\* instance who, now in state c, went through exactly what it does alone
AsAlone(who, c) ==
    LET es   == EntriesOf(who)
        solo == Alone(es[1].after, Len(es) - 1)
    IN  /\ \A j \in 1..Len(solo) :
              /\ es[j + 1].after = solo[j].after
              /\ es[j + 1].cycles = solo[j].cycles
              /\ es[j + 1].panic = solo[j].panic
        /\ c = es[Len(es)].after

\* what a Step may depend on: registers, main memory and the overlay flag
\* (the overlay bytes are those of the one embedded image)
StepInput(c) == <<c.Registers, c.Mmu.memory, c.Mmu.bootEnabled>>

Steps == {i \in 1..Len(trace) : trace[i].op = "Step"}

============================================================================
